---- MODULE Spec2Model ----
(***************************************************************************)
(* Model of the Veeam REST diagnostic (src/debug_veeam_api.py): the run of *)
(* main() from the network tests to the exit status, and the pagination    *)
(* loop of api_get_paginated.  The server and the network are the          *)
(* environment: every request draws its outcome from the outcomes the      *)
(* HTTP library can deliver.                                               *)
(*                                                                         *)
(* Model of the check plugins (src/plugins/veeam_rest): one call of a      *)
(* parse, discovery or check function, one of their rules or one of the    *)
(* duration functions of lib.py by the monitoring core, on sections and    *)
(* parameters drawn from small sets (SpecPlugins), and what a run of the   *)
(* diagnostic prints of the values registered for redaction (SpecRedact).  *)
(***************************************************************************)
EXTENDS Integers, Sequences, FiniteSets, TLC

\* ------------------------------------------------------------------------
\* Bounds of the model
\* ------------------------------------------------------------------------
MaxT == 4          \* records held by a collection on the server: 0..MaxT
MaxLimit == 2      \* page sizes tried for a direct call of api_get_paginated
MaxPageItems == 3  \* most items a server puts in one page (may exceed limit)

\* ------------------------------------------------------------------------
\* Program constants
\* ------------------------------------------------------------------------
API_VERSION == "1.3-rev1"
DefaultLimit == 500
NoVersion == "absent"      \* a request without the x-api-version header
None == "None"

Min(a, b) == IF a < b THEN a ELSE b
Max(a, b) == IF a > b THEN a ELSE b
\* ceil(a / b) for b >= 1
Ceil(a, b) == (a + b - 1) \div b

\* Outcomes of one HTTP request as the code distinguishes them:
\*   ok          status 200, body is JSON
\*   notjson     status 200, body is not JSON (response.json() raises)
\*   http_error  status other than 200
\*   timeout     session.get/post raises requests.exceptions.Timeout
\*   conn_error  session.get/post raises another exception
HttpOutcomes == {"ok", "notjson", "http_error", "timeout", "conn_error"}

\* The exceptions session.get / session.post raise.
Raises(outcome) == outcome \in {"timeout", "conn_error"}

\* Shapes of a 200 JSON collection response.
Shapes == {"bare", "env_total", "env_nototal"}

Categories == {"Network", "SSL/TLS", "Auth", "Server", "License", "API", "Infrastructure"}

VARIABLES
    pc,            \* position in main(), or "standalone" for a direct call of api_get_paginated
    exit,          \* status main() returned, "0" or "1" (None while running or after an uncaught exception)
    results,       \* TestResults.results as the set of <<category, status>> recorded
    token,         \* the bearer token main() holds
    tokenRequests, \* number of POST /api/oauth2/token issued
    authMessage,   \* the message get_oauth_token recorded in results (None before it ran)
    issued,        \* the stages of main() whose resource GET has been issued
    lastReq,       \* the HTTP request issued by the last step (None if it issued none)
    warning_jobs,  \* whether main() found a job with lastResult Warning/Failed
    backup_objects,\* len(backup_objects) held by run_performance_test
    perIdx,        \* index of the per-object loop of run_performance_test
    \* locals of api_get_paginated and the collection it reads
    pgpc,          \* "idle", "loop", "returned", "raised"
    limit, skip, all_items, call_count,
    shape,         \* shape of the endpoint's 200 responses
    T,             \* number of records of the collection (ids 1..T), the envelope's total
    pageLog,       \* the page requests of this call: [skip, outcome, n items]
    \* one invocation of a function of the check plugins (plugins/veeam_rest)
    fn,            \* the function invoked (None in a run of the diagnostic)
    arg,           \* its arguments
    fnpc,          \* "idle", "called", "body", "returned", "raised"
    out,           \* what it has yielded or returned so far
    \* what a run of the diagnostic prints (debug_veeam_api.py, --redact)
    args,          \* the command line: [redact, user]
    REDACT_ENABLED,
    REDACT_VALUES, \* the values registered for redaction
    jobs,          \* the names of the jobs of the data summary
    printed        \* lines printed: [line, shows, registered]

vars == <<pc, exit, results, token, tokenRequests, authMessage, issued, lastReq, warning_jobs,
          backup_objects, perIdx, pgpc, limit, skip, all_items, call_count, shape, T, pageLog,
          fn, arg, fnpc, out, args, REDACT_ENABLED, REDACT_VALUES, jobs, printed>>

mainVars == <<exit, results, token, tokenRequests, authMessage, issued, warning_jobs, backup_objects, perIdx>>
pgVars == <<pgpc, limit, skip, all_items, call_count, shape, T, pageLog>>
plugVars == <<fn, arg, fnpc, out>>
redactVars == <<args, REDACT_ENABLED, REDACT_VALUES, jobs, printed>>
diagVars == <<pc, exit, results, token, tokenRequests, authMessage, issued, lastReq, warning_jobs,
              backup_objects, perIdx, pgpc, limit, skip, all_items, call_count, shape, T, pageLog,
              args, REDACT_ENABLED, REDACT_VALUES, jobs, printed>>

\* TestResults.add / add_warning
ResultsAdd(res, category, passed) == res \cup {<<category, IF passed THEN "PASS" ELSE "FAIL">>}
ResultsAddWarning(res, category) == res \cup {<<category, "WARN">>}

\* ------------------------------------------------------------------------
\* HTTP requests: the headers each function builds
\* ------------------------------------------------------------------------
\* A sensitive value: what it is and how many characters it has
Value(what, len) == [what |-> what, len |-> len]
NoArgs == [redact |-> FALSE, user |-> Value("user", 5)]

\* No request issued by the step
NoRequest == [by |-> None, method |-> None, version |-> None, auth |-> None]

\* get_oauth_token: session.post(token_url, headers = {Content-Type, x-api-version})
TokenHeaders == [by |-> "get_oauth_token", method |-> "POST", version |-> API_VERSION, auth |-> None]

ApiGetHeaders_NoVersion(tok) == [by |-> "api_get", method |-> "GET", version |-> NoVersion, auth |-> tok]

\* api_get: session.get(url, headers = {Authorization, x-api-version, Accept})
ApiGetHeaders(tok) == [by |-> "api_get", method |-> "GET", version |-> API_VERSION, auth |-> tok]

\* api_get_paginated: the headers of every page request
PaginatedHeaders(tok) == [by |-> "api_get_paginated", method |-> "GET", version |-> API_VERSION, auth |-> tok]

\* test_api_endpoint: real_headers
EndpointHeaders(tok) == [by |-> "test_api_endpoint", method |-> "GET", version |-> API_VERSION, auth |-> tok]

\* ------------------------------------------------------------------------
\* main(): network and TLS tests
\* ------------------------------------------------------------------------
NetworkAborts_Never(passed) == FALSE

\* main returns 1 when DNS resolution or the TCP connect test failed
NetworkAborts(passed) == ~passed

\* test_dns_resolution and main's check of its result
TestDnsResolution ==
    /\ pc = "dns"
    /\ \E resolved \in BOOLEAN :
         /\ results' = ResultsAdd(results, "Network", resolved)
         /\ IF ~NetworkAborts(resolved)
              THEN pc' = "tcp" /\ exit' = exit
              ELSE pc' = "done" /\ exit' = "1"
    /\ lastReq' = NoRequest
    /\ UNCHANGED <<token, tokenRequests, authMessage, issued, warning_jobs, backup_objects, perIdx>>
    /\ UNCHANGED pgVars
    /\ UNCHANGED plugVars
    /\ UNCHANGED redactVars

\* test_tcp_connection and main's check of its result
TestTcpConnection ==
    /\ pc = "tcp"
    /\ \E outcome \in {"open", "closed", "timeout", "error"} :
         /\ results' = ResultsAdd(results, "Network", outcome = "open")
         /\ IF ~NetworkAborts(outcome = "open")
              THEN pc' = "tls" /\ exit' = exit
              ELSE pc' = "done" /\ exit' = "1"
    /\ lastReq' = NoRequest
    /\ UNCHANGED <<token, tokenRequests, authMessage, issued, warning_jobs, backup_objects, perIdx>>
    /\ UNCHANGED pgVars
    /\ UNCHANGED plugVars
    /\ UNCHANGED redactVars

TlsContinues_OnlyAfterHandshake(handshake) == handshake = "ok"

\* Whether main goes on to the authentication after the TLS test
TlsContinues(handshake) == TRUE

\* test_ssl_certificate; main ignores its result
TestSslCertificate ==
    /\ pc = "tls"
    /\ \E handshake \in {"ok", "ssl_error", "error"}, selfSigned \in BOOLEAN :
         /\ results' =
              IF handshake = "ok"
                THEN ResultsAdd(IF selfSigned THEN ResultsAddWarning(results, "SSL/TLS")
                                              ELSE ResultsAdd(results, "SSL/TLS", TRUE),
                                "SSL/TLS", TRUE)
                ELSE ResultsAdd(results, "SSL/TLS", FALSE)
         /\ IF TlsContinues(handshake)
              THEN pc' = "auth" /\ exit' = exit
              ELSE pc' = "done" /\ exit' = "1"
    /\ lastReq' = NoRequest
    /\ UNCHANGED <<token, tokenRequests, authMessage, issued, warning_jobs, backup_objects, perIdx>>
    /\ UNCHANGED pgVars
    /\ UNCHANGED plugVars
    /\ UNCHANGED redactVars

\* ------------------------------------------------------------------------
\* main(): authentication
\* ------------------------------------------------------------------------
\* What get_oauth_token returns: the access token of a 200 JSON answer that
\* holds one, None in every other case (it catches every exception).
OauthToken(outcome, hasToken) == IF outcome = "ok" /\ hasToken THEN "tok" ELSE None

\* What get_oauth_token records in results: PASS for status 200 with a JSON body
OauthPassed(outcome) == outcome = "ok"

\* The message of that record: the elapsed time after status 200,
\* "HTTP <status>" after another status, "Timeout" when the request raised
\* requests.exceptions.Timeout, str(e) after any other exception (the
\* JSONDecodeError of a 200 body that is not JSON included)
OauthMessage(outcome) ==
    CASE outcome = "ok" -> "elapsed ms"
      [] outcome = "http_error" -> "HTTP status"
      [] outcome = "timeout" -> "Timeout"
      [] OTHER -> "str(e)"

AuthAborts_Never(tok) == FALSE

\* main's check of the token: without one it returns 1
AuthAborts(tok) == tok = None

\* get_oauth_token and main's check of its result
GetOauthToken ==
    /\ pc = "auth"
    /\ \E outcome \in HttpOutcomes, hasToken \in BOOLEAN :
         LET tok == OauthToken(outcome, hasToken) IN
         /\ (outcome # "ok" => hasToken = FALSE)
         /\ lastReq' = TokenHeaders
         /\ tokenRequests' = tokenRequests + 1
         /\ authMessage' = OauthMessage(outcome)
         /\ results' = ResultsAdd(results, "Auth", OauthPassed(outcome))
         /\ token' = tok
         /\ IF AuthAborts(tok)
              THEN pc' = "done" /\ exit' = "1"
              ELSE pc' = "test:serverInfo" /\ exit' = exit
    /\ UNCHANGED <<issued, warning_jobs, backup_objects, perIdx>>
    /\ UNCHANGED pgVars
    /\ UNCHANGED plugVars
    /\ UNCHANGED redactVars

\* ------------------------------------------------------------------------
\* main(): the endpoint tests (sections 4, 5 and 6)
\* ------------------------------------------------------------------------
\* The calls of test_api_endpoint in the order main makes them
EndpointStages ==
    << "test:serverInfo", "test:license",
       "test:jobs/states", "test:backups", "test:backupObjects",
       "test:taskSessions", "test:restorePoints",
       "test:repositories/states", "test:proxies/states", "test:managedServers",
       "test:scaleOutRepositories", "test:wanAccelerators" >>

\* The category argument of each call
EndpointCategory(i) ==
    IF i = 1 THEN "Server"
    ELSE IF i = 2 THEN "License"
    ELSE IF i <= 7 THEN "API"
    ELSE "Infrastructure"

EndpointIndex(stage) == CHOOSE i \in 1..Len(EndpointStages) : EndpointStages[i] = stage

\* test_api_endpoint: status_ok is recorded; every exception is caught
EndpointPassed(outcome) == outcome \in {"ok", "notjson"}

\* Whether test_api_endpoint lets an exception of the request escape
EndpointRaises(outcome) == FALSE

\* One call of test_api_endpoint by main
TestApiEndpoint ==
    /\ pc \in {EndpointStages[i] : i \in 1..Len(EndpointStages)}
    /\ \E outcome \in HttpOutcomes :
         LET i == EndpointIndex(pc) IN
         /\ lastReq' = EndpointHeaders(token)
         /\ issued' = issued \cup {pc}
         /\ IF EndpointRaises(outcome)
              THEN pc' = "crashed" /\ results' = results
              ELSE /\ results' = ResultsAdd(results, EndpointCategory(i), EndpointPassed(outcome))
                   /\ pc' = IF i < Len(EndpointStages) THEN EndpointStages[i + 1]
                                                       ELSE "get:jobs/states"
    /\ UNCHANGED <<exit, token, tokenRequests, authMessage, warning_jobs, backup_objects, perIdx>>
    /\ UNCHANGED pgVars
    /\ UNCHANGED plugVars
    /\ UNCHANGED redactVars

\* ------------------------------------------------------------------------
\* main(): data summary (section 7), four calls of api_get
\* ------------------------------------------------------------------------
SummaryStages == << "get:jobs/states", "get:repositories/states",
                    "get:backupObjects", "get:restorePoints" >>

SummaryIndex(stage) == CHOOSE i \in 1..Len(SummaryStages) : SummaryStages[i] = stage

\* api_get has no try/except: an exception of session.get and a 200 answer
\* whose body is not JSON (response.json()) both leave it as an exception.
ApiGetRaises(outcome) == Raises(outcome) \/ outcome = "notjson"

\* One call of api_get by main, with no try/except around it.  After the last
\* one main looks for jobs with lastResult Warning/Failed (section 8).
ApiGetSummary ==
    /\ pc \in {SummaryStages[i] : i \in 1..Len(SummaryStages)}
    /\ \E outcome \in HttpOutcomes, warnings \in BOOLEAN :
         LET i == SummaryIndex(pc) IN
         /\ (~(i = 1 /\ outcome = "ok") => warnings = FALSE)
         /\ lastReq' = ApiGetHeaders(token)
         /\ issued' = issued \cup {pc}
         /\ IF ApiGetRaises(outcome)
              THEN pc' = "crashed" /\ warning_jobs' = warning_jobs
              ELSE /\ warning_jobs' = IF i = 1 THEN warnings ELSE warning_jobs
                   /\ pc' = IF i < Len(SummaryStages) THEN SummaryStages[i + 1]
                            ELSE IF warning_jobs THEN "page:taskSessions24h"
                            ELSE "page:backupObjects"
    /\ UNCHANGED <<exit, results, token, tokenRequests, authMessage, backup_objects, perIdx>>
    /\ UNCHANGED pgVars
    /\ UNCHANGED plugVars
    /\ UNCHANGED redactVars

\* ------------------------------------------------------------------------
\* api_get_paginated
\* ------------------------------------------------------------------------
\* The records the server returns for a page of n items at offset sk
PageItems(sk, n) == [i \in 1..n |-> sk + i]

\* The page a server that honours skip and limit returns at offset sk
HonouredSize(sk, lim, tot) == Min(lim, Max(tot - sk, 0))

\* The numbers of items a server may put in the page at offset sk: what skip
\* and limit ask for, or any other number of the records that follow skip.
PageSizes(sk, lim, tot) ==
    (0..Min(MaxPageItems, Max(tot - sk, 0))) \cup {HonouredSize(sk, lim, tot)}

\* total = pagination.get("total", len(items))
PaginationTotal(sh, n, tot) == IF sh = "env_total" THEN tot ELSE n

StopsAfterPage_BareAtFullPage(sh, sk, n, lim, tot) ==
    IF sh # "bare"
      THEN sk + n >= PaginationTotal(sh, n, tot)
      ELSE n <= lim

\* The "Check pagination" test after a non-empty page: TRUE when the loop ends
StopsAfterPage(sh, sk, n, lim, tot) ==
    IF sh # "bare"
      THEN sk + n >= PaginationTotal(sh, n, tot)
      ELSE n < lim

NextSkip_ByItems(sk, lim, n) == sk + n

NextSkip_ByOne(sk, lim, n) == sk + 1

\* skip += limit
NextSkip(sk, lim, n) == sk + lim

PageStep_RaiseForStatus(outcome, sh, sk, n, lim, tot) ==
    IF Raises(outcome) THEN "raise"
    ELSE IF outcome = "http_error" THEN "raise"
    ELSE IF outcome = "notjson" THEN "raise"
    ELSE IF n = 0 THEN "break"
    ELSE IF StopsAfterPage(sh, sk, n, lim, tot) THEN "last"
    ELSE "continue"

\* One iteration of the while loop, by the way it ends:
\*   raise     session.get or response.json() raises (no try/except)
\*   break     the loop ends and the page adds nothing
\*   last      the page is added and the loop ends
\*   continue  the page is added and the next one is requested
PageStep(outcome, sh, sk, n, lim, tot) ==
    IF Raises(outcome) THEN "raise"
    ELSE IF outcome = "http_error" THEN "break"
    ELSE IF outcome = "notjson" THEN "raise"
    ELSE IF n = 0 THEN "break"
    ELSE IF StopsAfterPage(sh, sk, n, lim, tot) THEN "last"
    ELSE "continue"

\* The locals of api_get_paginated before its loop
EnterPaginated(lim) ==
    /\ pgpc' = "loop"
    /\ limit' = lim
    /\ skip' = 0
    /\ all_items' = << >>
    /\ call_count' = 0
    /\ pageLog' = << >>

PaginatedStages == {"page:taskSessions24h", "page:taskSessions",
                    "page:backupObjects", "page:restorePoints"}

\* main and run_performance_test call api_get_paginated with the default
\* limit; the collection the endpoint holds is the server's.
CallPaginated ==
    /\ pc \in PaginatedStages
    /\ pgpc = "idle"
    /\ EnterPaginated(DefaultLimit)
    /\ \E t \in 0..MaxT, sh \in Shapes : T' = t /\ shape' = sh
    /\ lastReq' = NoRequest
    /\ UNCHANGED pc
    /\ UNCHANGED mainVars
    /\ UNCHANGED plugVars
    /\ UNCHANGED redactVars

\* One iteration of the while loop of api_get_paginated.  An exception leaves
\* the function; its callers in main and run_performance_test do not catch it.
FetchPage ==
    /\ pgpc = "loop"
    /\ \E outcome \in HttpOutcomes, n \in PageSizes(skip, limit, T) :
         LET step == PageStep(outcome, shape, skip, n, limit, T) IN
         /\ (outcome # "ok" => n = 0)
         /\ lastReq' = PaginatedHeaders(token)
         /\ issued' = issued \cup {pc}
         /\ pageLog' = Append(pageLog, [skip |-> skip, outcome |-> outcome, n |-> n])
         /\ call_count' = IF Raises(outcome) THEN call_count ELSE call_count + 1
         /\ all_items' = IF step \in {"last", "continue"}
                           THEN all_items \o PageItems(skip, n) ELSE all_items
         /\ skip' = IF step = "continue" THEN NextSkip(skip, limit, n) ELSE skip
         /\ pgpc' = IF step = "raise" THEN "raised"
                    ELSE IF step = "continue" THEN "loop"
                    ELSE "returned"
         /\ pc' = IF step = "raise" /\ pc # "standalone" THEN "crashed" ELSE pc
    /\ UNCHANGED <<exit, results, token, tokenRequests, authMessage, warning_jobs, backup_objects, perIdx>>
    /\ UNCHANGED <<limit, shape, T>>
    /\ UNCHANGED plugVars
    /\ UNCHANGED redactVars

\* The caller takes the result of api_get_paginated and goes on:
\* run_performance_test returns when there is no backup object.
ReturnPaginated ==
    /\ pc \in PaginatedStages
    /\ pgpc = "returned"
    /\ pc' = CASE pc = "page:taskSessions24h" -> "page:taskSessions"
               [] pc = "page:taskSessions" -> "page:backupObjects"
               [] pc = "page:backupObjects" ->
                      IF Len(all_items) = 0 THEN "final" ELSE "page:restorePoints"
               [] pc = "page:restorePoints" -> "perobject"
    /\ backup_objects' = IF pc = "page:backupObjects" THEN Len(all_items) ELSE backup_objects
    /\ perIdx' = 0
    /\ pgpc' = "idle"
    /\ limit' = 0 /\ skip' = 0 /\ all_items' = << >> /\ call_count' = 0
    /\ pageLog' = << >> /\ T' = 0 /\ shape' = "bare"
    /\ lastReq' = NoRequest
    /\ UNCHANGED <<exit, results, token, tokenRequests, authMessage, issued, warning_jobs>>
    /\ UNCHANGED plugVars
    /\ UNCHANGED redactVars

\* ------------------------------------------------------------------------
\* run_performance_test: the per-object loop, and the end of main
\* ------------------------------------------------------------------------
\* --perf-objects, default
PerfObjects == 10

\* One iteration of "for obj in test_objects": an object without id is
\* skipped, api_get is called inside try/except Exception.
PerObject ==
    /\ pc = "perobject"
    /\ perIdx < Min(backup_objects, PerfObjects)
    /\ \E hasId \in BOOLEAN, outcome \in HttpOutcomes :
         /\ (~hasId => outcome = "ok")
         /\ IF hasId
              THEN lastReq' = ApiGetHeaders(token) /\ issued' = issued \cup {pc}
              ELSE lastReq' = NoRequest /\ issued' = issued
    /\ perIdx' = perIdx + 1
    /\ UNCHANGED <<pc, exit, results, token, tokenRequests, authMessage, warning_jobs, backup_objects>>
    /\ UNCHANGED pgVars
    /\ UNCHANGED plugVars
    /\ UNCHANGED redactVars

\* The per-object loop is over: run_performance_test returns
PerObjectDone ==
    /\ pc = "perobject"
    /\ perIdx >= Min(backup_objects, PerfObjects)
    /\ pc' = "final"
    /\ lastReq' = NoRequest
    /\ UNCHANGED mainVars
    /\ UNCHANGED pgVars
    /\ UNCHANGED plugVars
    /\ UNCHANGED redactVars

\* critical_failed: a FAIL in category Auth or Network
CriticalFailed(res) == \E r \in res : r[2] = "FAIL" /\ r[1] \in {"Auth", "Network"}

\* The summaries and main's return value
Finish ==
    /\ pc = "final"
    /\ exit' = IF CriticalFailed(results) THEN "1" ELSE "0"
    /\ pc' = "done"
    /\ lastReq' = NoRequest
    /\ UNCHANGED <<results, token, tokenRequests, authMessage, issued, warning_jobs, backup_objects, perIdx>>
    /\ UNCHANGED pgVars
    /\ UNCHANGED plugVars
    /\ UNCHANGED redactVars

\* ------------------------------------------------------------------------
\* Specifications
\* ------------------------------------------------------------------------
InitCommon ==
    /\ exit = None
    /\ results = {}
    /\ tokenRequests = 0
    /\ authMessage = None
    /\ issued = {}
    /\ lastReq = NoRequest
    /\ warning_jobs = FALSE
    /\ backup_objects = 0
    /\ perIdx = 0
    /\ skip = 0 /\ all_items = << >> /\ call_count = 0 /\ pageLog = << >>
    /\ fn = None /\ arg = << >> /\ fnpc = "idle" /\ out = << >>
    /\ args = NoArgs /\ REDACT_ENABLED = FALSE /\ REDACT_VALUES = {}
    /\ jobs = {} /\ printed = {}

\* A run of the diagnostic: main() starts
Init ==
    /\ InitCommon
    /\ pc = "dns"
    /\ token = None
    /\ pgpc = "idle"
    /\ limit = 0 /\ T = 0 /\ shape = "bare"

Next ==
    \/ TestDnsResolution
    \/ TestTcpConnection
    \/ TestSslCertificate
    \/ GetOauthToken
    \/ TestApiEndpoint
    \/ ApiGetSummary
    \/ CallPaginated
    \/ FetchPage
    \/ ReturnPaginated
    \/ PerObject
    \/ PerObjectDone
    \/ Finish

Spec == Init /\ [][Next]_vars

\* A direct call api_get_paginated(..., limit) with a token, on a collection
\* of T records answered in one shape
InitPaginated ==
    /\ InitCommon
    /\ pc = "standalone"
    /\ token = "tok"
    /\ pgpc = "loop"
    /\ limit \in 1..MaxLimit
    /\ T \in 0..MaxT
    /\ shape \in Shapes

NextPaginated == FetchPage

SpecPaginated == InitPaginated /\ [][NextPaginated]_vars

\* The call runs on: the loop blocks in session.get for at most its timeout
\* of 60 seconds, so an iteration that can be taken is taken
SpecPaginatedRuns == SpecPaginated /\ WF_vars(FetchPage)

\* ------------------------------------------------------------------------
\* The check plugins (src/plugins/veeam_rest/agent_based): values they handle
\* ------------------------------------------------------------------------
MaxRows == 2       \* most rows of a section handed to a check function

Items == {"a", "b"}            \* service items (names of jobs, servers, ...)

\* What a check function yields: Result(state, summary/notice) or Metric(name, value)
Result(state, text) == [kind |-> "Result", state |-> state, name |-> text, value |-> 0]
Metric(name, value) == [kind |-> "Metric", state |-> None, name |-> name, value |-> value]

\* A section as the check function receives it: absent (None, the parse
\* function returned None or the agent sent nothing) or the parsed rows.  A
\* section that is one object (license, server, ...) has at most one row.
NoSection == [present |-> FALSE, rows |-> << >>]
SectionOf(rows) == [present |-> TRUE, rows |-> rows]

\* Python's "not section": None, {} and [] are all falsy
NotSection(section) == ~section.present \/ Len(section.rows) = 0

CheckPlugins ==
    {"backup_objects", "config_backup", "jobs", "license", "managed_servers",
     "proxies", "replicas", "repositories", "scaleout_repositories", "security",
     "server", "tasks", "vm_backup", "wan_accelerators"}

\* check functions that look their item up in the section
LookupPlugins ==
    {"backup_objects", "jobs", "managed_servers", "proxies", "replicas",
     "repositories", "scaleout_repositories", "tasks", "wan_accelerators"}

NoDataText(plugin) ==
    CASE plugin = "license"   -> "No license data received"
      [] plugin = "server"    -> "No server data received"
      [] plugin = "vm_backup" -> "No backup data received"
      [] OTHER                -> "No data received from agent"

NotFoundText(plugin) ==
    CASE plugin = "backup_objects"        -> "Backup object not found"
      [] plugin = "jobs"                  -> "Job not found"
      [] plugin = "managed_servers"       -> "Server not found"
      [] plugin = "proxies"               -> "Proxy not found"
      [] plugin = "replicas"              -> "Replica not found"
      [] plugin = "repositories"          -> "Repository not found"
      [] plugin = "scaleout_repositories" -> "Repository not found"
      [] plugin = "tasks"                 -> "Task not found"
      [] plugin = "wan_accelerators"      -> "WAN accelerator not found"

\* section.get(item) / the scan "for r in section: if r.get('name') == item":
\* the index of the row found, 0 when there is none
FindRow(rows, item) ==
    LET hits == {i \in 1..Len(rows) : rows[i].name = item}
    IN  IF hits = {} THEN 0 ELSE CHOOSE i \in hits : \A j \in hits : i <= j

\* task.get("endTime") or task.get("creationTime") or "": timestamps are
\* ordered values, 0 is the empty or missing one
TaskEndTime(task) == IF task.endTime # 0 THEN task.endTime ELSE task.creationTime

\* _get_latest_task: the first row of the item with the greatest end time
\* among those strictly later than "", 0 when no row was selected
RECURSIVE LatestTaskFrom(_, _, _, _, _)
LatestTaskFrom(rows, item, k, latest_task, latest_time) ==
    IF k > Len(rows) THEN latest_task
    ELSE IF rows[k].name # item
         THEN LatestTaskFrom(rows, item, k + 1, latest_task, latest_time)
    ELSE IF TaskEndTime(rows[k]) > latest_time
         THEN LatestTaskFrom(rows, item, k + 1, k, TaskEndTime(rows[k]))
    ELSE LatestTaskFrom(rows, item, k + 1, latest_task, latest_time)

GetLatestTask(item, section) == LatestTaskFrom(section.rows, item, 1, 0, 0)

Lookup(plugin, section, item) ==
    IF plugin = "tasks" THEN GetLatestTask(item, section)
    ELSE FindRow(section.rows, item)

\* The head of a check function: what it does before it evaluates its data.
\* check_veeam_rest_backup_objects has no "if not section" guard: its first
\* statement "item not in section" raises TypeError on None.
CheckHead(plugin, section, item) ==
    IF plugin = "backup_objects" THEN
        IF ~section.present THEN [to |-> "raised", out |-> << >>]
        ELSE IF FindRow(section.rows, item) = 0
             THEN [to |-> "returned", out |-> <<Result("UNKNOWN", NotFoundText(plugin))>>]
        ELSE [to |-> "body", out |-> << >>]
    ELSE IF NotSection(section)
         THEN [to |-> "returned", out |-> <<Result("UNKNOWN", NoDataText(plugin))>>]
    ELSE IF plugin \in LookupPlugins /\ Lookup(plugin, section, item) = 0
         THEN [to |-> "returned", out |-> <<Result("UNKNOWN", NotFoundText(plugin))>>]
    ELSE [to |-> "body", out |-> << >>]

\* The framework calls check_veeam_rest_<plugin>(item, params, section)
CheckEntry ==
    /\ fn = "check" /\ fnpc = "called"
    /\ LET head == CheckHead(arg.plugin, arg.section, arg.item)
       IN  /\ fnpc' = head.to
           /\ out' = head.out
    /\ UNCHANGED <<fn, arg>>
    /\ UNCHANGED diagVars

\* ------------------------------------------------------------------------
\* Enum-to-state mappings
\* ------------------------------------------------------------------------
Absent == 0 - 1                \* a numeric field or parameter that is not there
Null == 0 - 2                  \* a numeric field that is there and null

\* dict.get(key, default) on a mapping held as a function
DictGet(d, key, default) == IF key \in DOMAIN d THEN d[key] ELSE default

EmptyMap == << >>

\* params.get("<name>", {}) for an override map that may be absent
OverridesOf(ov) == IF ov.present THEN ov.map ELSE EmptyMap

\* State.worst: CRIT before UNKNOWN before WARN before OK
Badness(state) ==
    CASE state = "OK" -> 0 [] state = "WARN" -> 1 [] state = "UNKNOWN" -> 2 [] state = "CRIT" -> 3

Worst(s1, s2) == IF Badness(s1) >= Badness(s2) THEN s1 ELSE s2

DEFAULT_RESULT_STATE_MAP ==
    [k \in {"Success", "Warning", "Failed", "None"} |->
        CASE k = "Success" -> "ok" [] k = "Warning" -> "warn"
          [] k = "Failed" -> "crit" [] k = "None" -> "ok"]

DEFAULT_STATUS_STATE_MAP ==
    [k \in {"Running", "Inactive", "Disabled", "Enabled", "Stopping", "Stopped", "Starting"} |->
        IF k = "Disabled" THEN "warn" ELSE "ok"]

STATE_MAP_UnknownFallback(state_str) ==
    CASE state_str = "ok" -> "OK" [] state_str = "warn" -> "WARN"
      [] state_str = "crit" -> "CRIT" [] OTHER -> "UNKNOWN"

\* STATE_MAP.get(state_str, State.OK)
STATE_MAP(state_str) ==
    CASE state_str = "ok" -> "OK" [] state_str = "warn" -> "WARN"
      [] state_str = "crit" -> "CRIT" [] OTHER -> "OK"

ResultParamKey_Verbatim(result) == result

\* "None" from the API is the key "no_result" of the rule
ResultParamKey(result) == IF result = "None" THEN "no_result" ELSE result

GetResultState(result, result_states) ==
    STATE_MAP(DictGet(OverridesOf(result_states), ResultParamKey(result),
                      DictGet(DEFAULT_RESULT_STATE_MAP, result, "ok")))

GetStatusState(status, status_states) ==
    STATE_MAP(DictGet(OverridesOf(status_states), status,
                      DictGet(DEFAULT_STATUS_STATE_MAP, status, "ok")))

\* ------------------------------------------------------------------------
\* check_veeam_rest_jobs, after its head
\* ------------------------------------------------------------------------
IgnoresDisabled_Never(status, ignore_disabled) == FALSE

IgnoresDisabled(status, ignore_disabled) == status = "Disabled" /\ ignore_disabled

\* The job's fields the model draws; a job of the model has no description,
\* repository, schedule, duration, rate or other sizes.
JobsPrimary(job, params) ==
    Result(Worst(GetResultState(job.lastResult, params.result_states),
                 GetStatusState(job.status, params.status_states)),
           "Status, Last result")

JobsMaxAge(job, params) ==
    IF /\ params.max_job_age # Absent
       /\ job.lastRunAgeSeconds # Absent
       /\ job.lastRunAgeSeconds > params.max_job_age * 3600
    THEN <<Result("WARN", "Last run exceeds threshold")>>
    ELSE << >>

\* job.get("sessionProgress", {}).get("processedSize", 0)
JobsProcessedSize(job) ==
    IF job.sessionProgress.kind = "dict" THEN job.sessionProgress.processedSize ELSE 0

JobsDetails(job) ==
    <<Result("OK", "Type"), Result("OK", "Objects")>>
    \o (IF JobsProcessedSize(job) > 0 THEN <<Result("OK", "Processed")>> ELSE << >>)
    \o (IF JobsProcessedSize(job) > 0
        THEN <<Metric("veeam_rest_job_size_processed", JobsProcessedSize(job))>> ELSE << >>)

CheckJobs ==
    /\ fn = "check" /\ fnpc = "body" /\ arg.plugin = "jobs"
    /\ LET job == arg.section.rows[FindRow(arg.section.rows, arg.item)]
           params == arg.params
       IN  IF IgnoresDisabled(job.status, params.ignore_disabled)
           THEN /\ out' = <<Result("OK", "Job is disabled (ignored)")>>
                /\ fnpc' = "returned"
           ELSE IF job.sessionProgress.kind = "null"
           \* line 275 reads sessionProgress without "or {}": .get on None raises
           THEN /\ out' = <<JobsPrimary(job, params)>> \o JobsMaxAge(job, params)
                /\ fnpc' = "raised"
           ELSE IF JobsProcessedSize(job) = Null
           \* line 316 compares the size unguarded: None > 0 raises, after
           \* the first two details
           THEN /\ out' = <<JobsPrimary(job, params)>> \o JobsMaxAge(job, params)
                            \o <<Result("OK", "Type"), Result("OK", "Objects")>>
                /\ fnpc' = "raised"
           ELSE /\ out' = <<JobsPrimary(job, params)>> \o JobsMaxAge(job, params)
                            \o JobsDetails(job)
                /\ fnpc' = "returned"
    /\ UNCHANGED <<fn, arg>>
    /\ UNCHANGED diagVars

\* ------------------------------------------------------------------------
\* Section parse functions
\* ------------------------------------------------------------------------
\* A string table: no rows, a row with no column (line[0] raises IndexError),
\* text json.loads rejects (JSONDecodeError), or text of a JSON document.  A
\* document is a list, an object, a number or null; elems are the elements of
\* a list, or the members of an object (iterating it gives their keys).
TableKinds == {"empty", "no_column", "malformed", "json"}

PyNone == [py |-> "None"]
PyJson(doc) == [py |-> "json", doc |-> doc]
PyDict(rows) == [py |-> "dict", rows |-> rows]

\* Python truth of a parsed document ("not data"): a number of the model is non-zero
Truthy(doc) ==
    CASE doc.shape = "null"   -> FALSE
      [] doc.shape = "scalar" -> TRUE
      [] OTHER                -> Len(doc.elems) > 0

\* lib.parse_json_section, and the same body repeated in the plugins that
\* return the document as parsed (json.loads gives None for the text null)
ParseJsonSection(table) ==
    IF table.kind = "json" /\ table.doc.shape # "null" THEN PyJson(table.doc) ELSE PyNone

RawParsePlugins ==
    {"config_backup", "license", "managed_servers", "scaleout_repositories",
     "server", "tasks", "vm_backup", "wan_accelerators"}
DictParsePlugins == {"jobs", "proxies", "replicas", "repositories"}

\* the dict built from a list of objects: one entry per truthy name, in the
\* order of first insertion
RECURSIVE DictByName(_, _)
DictByName(elems, k) ==
    IF k = 0 THEN << >>
    ELSE LET before == DictByName(elems, k - 1)
         IN  IF elems[k].name = "" \/ \E i \in 1..Len(before) : before[i].name = elems[k].name
             THEN before
             ELSE Append(before, [name |-> elems[k].name])

HasScalarElem(doc) == \E k \in 1..Len(doc.elems) : doc.elems[k].kind = "scalar"

DictOrNone(doc) ==
    IF Len(DictByName(doc.elems, Len(doc.elems))) = 0 THEN PyNone
    ELSE PyDict(DictByName(doc.elems, Len(doc.elems)))

\* parse_veeam_rest_jobs / _repositories / _proxies / _replicas: a list only,
\* then .get("name") on every element (AttributeError on one that is no object)
ParseToDict(table) ==
    LET data == ParseJsonSection(table)
    IN  IF data.py = "None" THEN [to |-> "returned", value |-> PyNone]
        ELSE IF ~Truthy(data.doc) \/ data.doc.shape # "list"
             THEN [to |-> "returned", value |-> PyNone]
        ELSE IF HasScalarElem(data.doc) THEN [to |-> "raised", value |-> PyNone]
        ELSE [to |-> "returned", value |-> DictOrNone(data.doc)]

\* parse_veeam_rest_security: a non-empty list as it is
ParseSecurity(table) ==
    LET data == ParseJsonSection(table)
    IN  IF data.py = "None" THEN [to |-> "returned", value |-> PyNone]
        ELSE IF ~Truthy(data.doc) \/ data.doc.shape # "list"
             THEN [to |-> "returned", value |-> PyNone]
        ELSE [to |-> "returned", value |-> data]

\* parse_veeam_rest_backup_objects: iterates whatever json.loads returned and
\* catches JSONDecodeError and IndexError only.  null and a number are not
\* iterable (TypeError); the members of an object iterate as strings, which
\* have no .get (AttributeError), as have the non-object elements of a list.
ParseBackupObjects(table) ==
    IF table.kind # "json" THEN [to |-> "returned", value |-> PyNone]
    ELSE LET doc == table.doc
         IN  IF doc.shape \in {"null", "scalar"} THEN [to |-> "raised", value |-> PyNone]
             ELSE IF doc.shape = "object"
                  THEN IF Len(doc.elems) > 0 THEN [to |-> "raised", value |-> PyNone]
                       ELSE [to |-> "returned", value |-> PyNone]
             ELSE IF HasScalarElem(doc) THEN [to |-> "raised", value |-> PyNone]
             ELSE [to |-> "returned", value |-> DictOrNone(doc)]

ParseSection(plugin, table) ==
    CASE plugin \in RawParsePlugins  -> [to |-> "returned", value |-> ParseJsonSection(table)]
      [] plugin \in DictParsePlugins -> ParseToDict(table)
      [] plugin = "security"         -> ParseSecurity(table)
      [] plugin = "backup_objects"   -> ParseBackupObjects(table)

\* The framework calls parse_veeam_rest_<plugin>(string_table)
Parse ==
    /\ fn = "parse" /\ fnpc = "called"
    /\ LET r == ParseSection(arg.plugin, arg.table)
       IN  /\ fnpc' = r.to
           /\ out' = r.value
    /\ UNCHANGED <<fn, arg>>
    /\ UNCHANGED diagVars

\* ------------------------------------------------------------------------
\* The enum-state rules of the other check functions
\* ------------------------------------------------------------------------
MALWARE_STATUS_DEFAULTS ==
    [k \in {"Clean", "Infected", "Suspicious", "NotScanned"} |->
        CASE k = "Clean" -> "ok" [] k = "Infected" -> "crit" [] OTHER -> "warn"]

\* lib.get_malware_state: the defaults, overridden by every entry of the rule
\* whose state is one of ok, warn, crit; a status in neither is OK
GetMalwareState(malware_status, malware_states) ==
    LET ov == OverridesOf(malware_states)
    IN  IF malware_status \in DOMAIN ov /\ ov[malware_status] \in {"ok", "warn", "crit"}
        THEN STATE_MAP(ov[malware_status])
        ELSE IF malware_status \in DOMAIN MALWARE_STATUS_DEFAULTS
             THEN STATE_MAP(MALWARE_STATUS_DEFAULTS[malware_status])
        ELSE "OK"

\* veeam_rest_tasks: RESULT_STATE_MAP.get(result_str, State.UNKNOWN)
TaskResultState(result_str) ==
    CASE result_str = "Success" -> "OK" [] result_str = "Warning" -> "WARN"
      [] result_str = "Failed" -> "CRIT" [] result_str = "None" -> "OK"
      [] OTHER -> "UNKNOWN"

\* veeam_rest_license: STATUS_STATE_MAP.get(status, State.UNKNOWN)
LicenseStatusState(status) ==
    CASE status = "Valid" -> "OK" [] status = "Invalid" -> "CRIT"
      [] status = "Expired" -> "CRIT" [] OTHER -> "UNKNOWN"

\* veeam_rest_managed_servers: PROBLEM_STATUSES.get(status, State.OK)
ManagedServerState(status) ==
    CASE status \in {"Unavailable", "Inaccessible", "Offline"} -> "CRIT"
      [] status \in {"Maintenance", "Warning"} -> "WARN"
      [] OTHER -> "OK"

Mappings ==
    {"job_result", "job_status", "malware_status", "task_result", "license_status",
     "managed_server_status"}
OverridableMappings == {"job_result", "job_status", "malware_status"}

\* the values each mapping has a built-in state for
DefaultKeys(mapping) ==
    CASE mapping = "job_result"     -> DOMAIN DEFAULT_RESULT_STATE_MAP
      [] mapping = "job_status"     -> DOMAIN DEFAULT_STATUS_STATE_MAP
      [] mapping = "malware_status" -> DOMAIN MALWARE_STATUS_DEFAULTS
      [] mapping = "task_result"    -> {"Success", "Warning", "Failed", "None"}
      [] mapping = "license_status" -> {"Valid", "Invalid", "Expired"}
      [] mapping = "managed_server_status" ->
             {"Unavailable", "Inaccessible", "Offline", "Maintenance", "Warning"}

MapState(mapping, value, overrides) ==
    CASE mapping = "job_result"     -> GetResultState(value, overrides)
      [] mapping = "job_status"     -> GetStatusState(value, overrides)
      [] mapping = "malware_status" -> GetMalwareState(value, overrides)
      [] mapping = "task_result"    -> TaskResultState(value)
      [] mapping = "license_status" -> LicenseStatusState(value)
      [] mapping = "managed_server_status" -> ManagedServerState(value)

\* A check function evaluates one of its enum-state rules
EvalMapping ==
    /\ fn = "map" /\ fnpc = "called"
    /\ out' = MapState(arg.mapping, arg.value, arg.overrides)
    /\ fnpc' = "returned"
    /\ UNCHANGED <<fn, arg>>
    /\ UNCHANGED diagVars

\* ------------------------------------------------------------------------
\* Numeric threshold rules written out in the check functions
\* ------------------------------------------------------------------------
\* check_veeam_rest_security: the number of failed checks against
\* failed_warn / failed_crit
SecurityFailedState(failed, warn_threshold, crit_threshold) ==
    IF failed >= crit_threshold THEN "CRIT"
    ELSE IF failed >= warn_threshold THEN "WARN"
    ELSE "OK"

\* check_veeam_rest_license: days left until the license expires
LicenseExpirationState(days_left, exp_warn, exp_crit) ==
    IF days_left < 0 THEN "CRIT"
    ELSE IF days_left <= exp_crit THEN "CRIT"
    ELSE IF days_left <= exp_warn THEN "WARN"
    ELSE "OK"

\* check_veeam_rest_license: days left until the support contract expires;
\* every branch but the last yields WARN
SupportExpirationState(support_days_left, support_exp_warn, support_exp_crit) ==
    IF support_days_left < 0 THEN "WARN"
    ELSE IF support_days_left <= support_exp_crit THEN "WARN"
    ELSE IF support_days_left <= support_exp_warn THEN "WARN"
    ELSE "OK"

\* check_veeam_rest_license: the percentage of instances in use
InstanceUsageState(usage_percent, usage_warn, usage_crit) ==
    IF usage_percent >= usage_crit THEN "CRIT"
    ELSE IF usage_percent >= usage_warn THEN "WARN"
    ELSE "OK"

UpperRules == {"security_failed", "instance_usage"}
LowerRules == {"license_expiration", "support_expiration"}

RuleState(rule, value, warn, crit) ==
    CASE rule = "security_failed"    -> SecurityFailedState(value, warn, crit)
      [] rule = "instance_usage"     -> InstanceUsageState(value, warn, crit)
      [] rule = "license_expiration" -> LicenseExpirationState(value, warn, crit)
      [] rule = "support_expiration" -> SupportExpirationState(value, warn, crit)

\* A check function evaluates one of its numeric rules
EvalRule ==
    /\ fn = "rule" /\ fnpc = "called"
    /\ out' = RuleState(arg.rule, arg.value, arg.warn, arg.crit)
    /\ fnpc' = "returned"
    /\ UNCHANGED <<fn, arg>>
    /\ UNCHANGED diagVars

\* ------------------------------------------------------------------------
\* Level checks
\* ------------------------------------------------------------------------
\* Levels as a check function hands them to check_levels: None, the tagged
\* form ("fixed", (warn, crit)), or a bare pair (warn, crit)
NoLevels == [kind |-> "none", warn |-> 0, crit |-> 0]
Fixed(warn, crit) == [kind |-> "fixed", warn |-> warn, crit |-> crit]
Bare(warn, crit) == [kind |-> "bare", warn |-> warn, crit |-> crit]

\* check_levels of the monitoring framework (cmk.agent_based.v2), fixed
\* levels: upper levels are crossed at ">=", lower levels at "<", crit first.
\* It yields one Result and, given a metric name, the Metric of the value.
LevelsState(value, levels_upper, levels_lower) ==
    IF levels_upper.kind = "fixed" /\ value >= levels_upper.crit THEN "CRIT"
    ELSE IF levels_lower.kind = "fixed" /\ value < levels_lower.crit THEN "CRIT"
    ELSE IF levels_upper.kind = "fixed" /\ value >= levels_upper.warn THEN "WARN"
    ELSE IF levels_lower.kind = "fixed" /\ value < levels_lower.warn THEN "WARN"
    ELSE "OK"

CheckLevels(value, levels_upper, levels_lower, metric_name, label) ==
    <<Result(LevelsState(value, levels_upper, levels_lower), label)>>
        \o (IF metric_name # None THEN <<Metric(metric_name, value)>> ELSE << >>)

\* ------------------------------------------------------------------------
\* check_veeam_rest_repositories, after its head
\* ------------------------------------------------------------------------
\* Sizes stay in GB: the factor 1024^3 the code applies to capacity, free and
\* used space and to legacy free-space levels alike is left out.  The
\* capacities and free sizes drawn make the percentage a whole number.
UsedGb_Reported(repo) == repo.usedSpaceGB

\* used_gb = capacity_gb - free_gb if capacity_gb > 0 else 0
UsedGb(repo) == IF repo.capacityGB > 0 THEN repo.capacityGB - repo.freeGB ELSE 0

\* used_percent = (used_gb / capacity_gb) * 100, 0 without capacity
UsedPercent(repo) ==
    IF repo.capacityGB > 0 THEN (UsedGb(repo) * 100) \div repo.capacityGB ELSE 0

\* a bare (w, c) rule is wrapped as ("fixed", (w, c))
WrapLevels(levels) == IF levels.kind = "bare" THEN Fixed(levels.warn, levels.crit) ELSE levels

RepoUsage(repo, params) ==
    IF params.usage_levels.kind # "none"
    THEN CheckLevels(UsedPercent(repo), WrapLevels(params.usage_levels), NoLevels,
                     "repository_used_percent", "Used")
    ELSE <<Result("OK", "Used"),
           Metric("veeam_rest_repository_used_percent", UsedPercent(repo))>>

RepoFree(repo, params) ==
    IF params.free_space_levels.kind # "none"
    THEN CheckLevels(repo.freeGB, NoLevels, WrapLevels(params.free_space_levels),
                     "veeam_rest_repository_free", "Free")
    ELSE << >>

RepoCapacity(repo, params) ==
    <<Result("OK", "Capacity, Free"), Metric("veeam_rest_repository_capacity", repo.capacityGB)>>
        \o (IF params.free_space_levels.kind = "none"
            THEN <<Metric("veeam_rest_repository_free", repo.freeGB)>> ELSE << >>)
        \o <<Metric("veeam_rest_repository_used", UsedGb(repo)), Result("OK", "Type")>>

CheckRepositories ==
    /\ fn = "check" /\ fnpc = "body" /\ arg.plugin = "repositories"
    /\ LET repo == arg.section.rows[FindRow(arg.section.rows, arg.item)]
           params == arg.params
       IN  IF ~repo.isOnline
           THEN out' = <<Result("CRIT", "Repository is OFFLINE")>>
           ELSE out' = (IF repo.isOutOfDate
                        THEN <<Result("WARN", "Repository has outdated components")>>
                        ELSE << >>)
                       \o RepoUsage(repo, params) \o RepoFree(repo, params)
                       \o RepoCapacity(repo, params)
    /\ fnpc' = "returned"
    /\ UNCHANGED <<fn, arg>>
    /\ UNCHANGED diagVars

\* ------------------------------------------------------------------------
\* Backup age: the levels handed to check_levels
\* ------------------------------------------------------------------------
\* lib.yield_backup_metrics: hours converted to seconds, tagged "fixed"
LibBackupAgeLevels(age_warn_hours, age_crit_hours) ==
    IF age_warn_hours > 0 /\ age_crit_hours > 0
    THEN Fixed(age_warn_hours * 3600, age_crit_hours * 3600)
    ELSE NoLevels

\* check_veeam_rest_vm_backup and check_veeam_rest_backup_objects: the two
\* parameters as they are, in a bare pair
PluginBackupAgeLevels(age_warn, age_crit) ==
    IF age_warn > 0 /\ age_crit > 0 THEN Bare(age_warn, age_crit) ELSE NoLevels

BackupAgeFunctions ==
    {"yield_backup_metrics", "check_veeam_rest_vm_backup", "check_veeam_rest_backup_objects"}

\* The backup-age step of one of the three functions: the call of
\* check_levels(backup_age, levels_upper=..., metric_name="veeam_rest_backup_age")
BackupAge ==
    /\ fn = "backup_age" /\ fnpc = "called"
    /\ out' = [value |-> arg.backupAgeSeconds,
               levels_upper |->
                   IF arg.function = "yield_backup_metrics"
                   THEN LibBackupAgeLevels(arg.backup_age_warn, arg.backup_age_crit)
                   ELSE PluginBackupAgeLevels(arg.backup_age_warn, arg.backup_age_crit)]
    /\ fnpc' = "returned"
    /\ UNCHANGED <<fn, arg>>
    /\ UNCHANGED diagVars

\* ------------------------------------------------------------------------
\* check_veeam_rest_tasks, after its head
\* ------------------------------------------------------------------------
\* The task's fields the model draws; a task of the model has no result
\* message, age, duration or progress, and the check gets no thresholds.
\* check_state: the state of the task's result, OK while it is Working
TasksPrimary(task) ==
    Result(IF task.state = "Working" THEN "OK" ELSE TaskResultState(task.result),
           "State, Result")

\* the details notice: "Started" and "Ended" when the task has them
TasksDetails(task) ==
    IF task.creationTime # 0 \/ task.endTime # 0
    THEN <<Result("OK", "Started, Ended")>> ELSE << >>

CheckTasks ==
    /\ fn = "check" /\ fnpc = "body" /\ arg.plugin = "tasks"
    /\ LET task == arg.section.rows[GetLatestTask(arg.item, arg.section)]
       IN  out' = <<TasksPrimary(task)>> \o TasksDetails(task)
    /\ fnpc' = "returned"
    /\ UNCHANGED <<fn, arg>>
    /\ UNCHANGED diagVars

\* ------------------------------------------------------------------------
\* Backup checks: the metrics they yield
\* ------------------------------------------------------------------------
\* The three functions hold the same steps; check_veeam_rest_backup_objects,
\* and yield_backup_metrics with include_extra_metrics, add the extra ones.
\* A record of the model has no processingRate, transferredSize, avgSpeed,
\* totalSize or dataSize.  taskData and latestRestorePoint are absent (or
\* empty, which "if task_data:" treats alike) or an object.
YieldsExtraMetrics(function, include_extra_metrics) ==
    function = "check_veeam_rest_backup_objects"
        \/ (function = "yield_backup_metrics" /\ include_extra_metrics)

\* the metrics of the "if task_data:" block
TaskDataMetrics(task_data) ==
    IF task_data.kind # "dict" THEN << >>
    ELSE (IF task_data.processedSize # Absent
          THEN <<Metric("veeam_rest_backup_size_processed", task_data.processedSize)>> ELSE << >>)
      \o (IF task_data.durationSeconds # Absent
          THEN <<Metric("veeam_rest_backup_duration", task_data.durationSeconds)>> ELSE << >>)
      \o (IF task_data.readSize # Absent
          THEN <<Metric("veeam_rest_backup_size_read", task_data.readSize)>> ELSE << >>)

\* "if not task_data or not (task_data.get('progress') or {}).get('processedSize')":
\* a processedSize of 0 is falsy like a missing one
SizeFallback(task_data) ==
    task_data.kind # "dict" \/ task_data.processedSize = Absent \/ task_data.processedSize = 0

\* the metrics of the "if latest_rp:" block
RestorePointMetrics(latest_rp, task_data, extra) ==
    IF latest_rp.kind # "dict" THEN << >>
    ELSE (IF SizeFallback(task_data) /\ latest_rp.originalSize # Absent
          THEN <<Metric("veeam_rest_backup_size_processed", latest_rp.originalSize)>> ELSE << >>)
      \o (IF extra /\ latest_rp.backupSize # Absent
          THEN <<Metric("veeam_rest_backup_backup_size", latest_rp.backupSize)>> ELSE << >>)

\* all metrics of one invocation, in the order they are yielded
BackupMetrics(function, data, include_extra_metrics) ==
    <<Metric("veeam_rest_backup_restore_points", data.restorePointsCount)>>
      \o (IF data.backupAgeSeconds # Absent
          THEN <<Metric("veeam_rest_backup_age", data.backupAgeSeconds)>> ELSE << >>)
      \o TaskDataMetrics(data.taskData)
      \o RestorePointMetrics(data.latestRestorePoint, data.taskData,
                             YieldsExtraMetrics(function, include_extra_metrics))

\* One of the three functions runs on a backup record that is found
CheckBackup ==
    /\ fn = "backup_metrics" /\ fnpc = "called"
    /\ out' = BackupMetrics(arg.function, arg.data, arg.include_extra_metrics)
    /\ fnpc' = "returned"
    /\ UNCHANGED <<fn, arg>>
    /\ UNCHANGED diagVars

\* ------------------------------------------------------------------------
\* Discovery functions, and the check of a discovered service
\* ------------------------------------------------------------------------
\* sections that are a list of rows: discovery skips a row without a name
ListSectionPlugins == {"managed_servers", "scaleout_repositories", "tasks", "wan_accelerators"}

\* sections that are a dict keyed by item: discovery yields every key
DictSectionPlugins == {"backup_objects", "jobs", "proxies", "replicas", "repositories"}

\* discover_veeam_rest_<plugin>(section) on a parsed section: the items of the
\* services it yields (None for the one service of a plugin without items)
Discover(plugin, section) ==
    IF plugin \in ListSectionPlugins
    THEN {section.rows[k].name : k \in {j \in 1..Len(section.rows) : section.rows[j].name # ""}}
    ELSE IF plugin \in DictSectionPlugins
    THEN {section.rows[k].name : k \in 1..Len(section.rows)}
    ELSE IF plugin = "vm_backup"
    THEN IF Len(section.rows) = 0 THEN {} ELSE {section.rows[1].name}
    ELSE IF plugin = "security" THEN {None}
    ELSE IF Len(section.rows) = 0 THEN {} ELSE {None}

\* The core calls the discovery function on the parsed section
Discovery ==
    /\ fn = "discover" /\ fnpc = "called"
    /\ out' = Discover(arg.plugin, arg.section)
    /\ fnpc' = "discovered"
    /\ UNCHANGED <<fn, arg>>
    /\ UNCHANGED diagVars

\* and then the check function for a service it discovered, on that section
CheckDiscovered ==
    /\ fn = "discover" /\ fnpc = "discovered"
    /\ \E item \in out :
         LET head == CheckHead(arg.plugin, arg.section, item)
         IN  out' = [item |-> item, to |-> head.to, out |-> head.out]
    /\ fnpc' = "checked"
    /\ UNCHANGED <<fn, arg>>
    /\ UNCHANGED diagVars

\* ------------------------------------------------------------------------
\* Durations (lib.py): parse_duration_to_seconds and format_duration_hms
\* ------------------------------------------------------------------------
\* A string is the sequence of its characters.  The characters of a duration
\* are the digits, ":" and "."; "x" stands for any other character.
DigitChars == <<"0", "1", "2", "3", "4", "5", "6", "7", "8", "9">>
IsDigit(c) == \E d \in 1..10 : DigitChars[d] = c
DigitValue(c) == (CHOOSE d \in 1..10 : DigitChars[d] = c) - 1

\* str(n) for n >= 0
RECURSIVE Decimal(_)
Decimal(n) ==
    IF n < 10 THEN <<DigitChars[n + 1]>>
    ELSE Decimal(n \div 10) \o <<DigitChars[(n % 10) + 1]>>

\* f"{n:02d}" for n >= 0: at least two digits, zero-filled
Pad02(n) == IF n < 10 THEN <<"0">> \o Decimal(n) ELSE Decimal(n)

FormatDurationHms_DayClock(seconds) ==
    Pad02((seconds \div 3600) % 24) \o <<":">> \o Pad02((seconds % 3600) \div 60)
        \o <<":">> \o Pad02(seconds % 60)

\* format_duration_hms (and _format_duration_hms of veeam_rest_tasks):
\* hours, remainder = divmod(seconds, 3600); minutes, secs = divmod(remainder, 60)
FormatDurationHms(seconds) ==
    Pad02(seconds \div 3600) \o <<":">> \o Pad02((seconds % 3600) \div 60)
        \o <<":">> \o Pad02(seconds % 60)

\* str.split(sep): the parts between the separators, empty ones included
RECURSIVE SplitFrom(_, _, _, _)
SplitFrom(str, sep, k, cur) ==
    IF k > Len(str) THEN <<cur>>
    ELSE IF str[k] = sep THEN <<cur>> \o SplitFrom(str, sep, k + 1, << >>)
    ELSE SplitFrom(str, sep, k + 1, Append(cur, str[k]))

Split(str, sep) == SplitFrom(str, sep, 1, << >>)

\* str.split(sep, 1) of a string that holds sep: before and after its first
SplitOnce(str, sep) ==
    LET k == CHOOSE i \in 1..Len(str) : str[i] = sep /\ \A j \in 1..(i - 1) : str[j] # sep
    IN  <<SubSeq(str, 1, k - 1), SubSeq(str, k + 1, Len(str))>>

Contains(str, c) == \E i \in 1..Len(str) : str[i] = c

\* int(str) raises ValueError unless str is a non-empty run of digits
IntRaises(str) == Len(str) = 0 \/ \E i \in 1..Len(str) : ~IsDigit(str[i])

RECURSIVE IntOf(_)
IntOf(str) ==
    IF Len(str) = 0 THEN 0
    ELSE 10 * IntOf(SubSeq(str, 1, Len(str) - 1)) + DigitValue(str[Len(str)])

NoSeconds == [none |-> TRUE, seconds |-> 0]
Seconds(n) == [none |-> FALSE, seconds |-> n]

\* parse_duration_to_seconds: None for an empty string, for a string that
\* has not three parts and when int() raises ValueError
ParseDurationToSeconds(duration_str) ==
    IF Len(duration_str) = 0 THEN NoSeconds
    ELSE LET parts == Split(duration_str, ":") IN
         IF Len(parts) # 3 THEN NoSeconds
         ELSE LET hours_part == parts[1]
                  dotted == Contains(hours_part, ".")
                  days_str == IF dotted THEN SplitOnce(hours_part, ".")[1] ELSE <<"0">>
                  hours_str == IF dotted THEN SplitOnce(hours_part, ".")[2] ELSE hours_part
              IN  IF \/ IntRaises(days_str) \/ IntRaises(hours_str)
                     \/ IntRaises(parts[2]) \/ IntRaises(parts[3])
                  THEN NoSeconds
                  ELSE Seconds(IntOf(days_str) * 86400 + IntOf(hours_str) * 3600
                               + IntOf(parts[2]) * 60 + IntOf(parts[3]))

\* format_duration_hms(seconds)
FormatDuration ==
    /\ fn = "format_duration" /\ fnpc = "called"
    /\ out' = [text |-> FormatDurationHms(arg.seconds), parsed |-> NoSeconds]
    /\ fnpc' = "formatted"
    /\ UNCHANGED <<fn, arg>>
    /\ UNCHANGED diagVars

\* parse_duration_to_seconds(duration_str), of a duration of the API or of
\* what format_duration_hms returned
ParseDuration ==
    /\ \/ fn = "parse_duration" /\ fnpc = "called"
          /\ out' = [text |-> arg.text, parsed |-> ParseDurationToSeconds(arg.text)]
       \/ fn = "format_duration" /\ fnpc = "formatted"
          /\ out' = [text |-> out.text, parsed |-> ParseDurationToSeconds(out.text)]
    /\ fnpc' = "returned"
    /\ UNCHANGED <<fn, arg>>
    /\ UNCHANGED diagVars

\* ------------------------------------------------------------------------
\* Invocations of the plugin functions
\* ------------------------------------------------------------------------
MaxTime == 2       \* timestamps of a task row: 0 (empty) .. MaxTime
MaxLevel == 4      \* warn and crit bounds of a numeric rule: 0..MaxLevel

SeqsUpTo(S, n) == UNION {[1..k -> S] : k \in 0..n}

NoOverrides == [present |-> FALSE, map |-> EmptyMap]
Overrides(map) == [present |-> TRUE, map |-> map]

\* rules with no entry or one entry
OverrideMaps(keys) ==
    {NoOverrides, Overrides(EmptyMap)}
        \cup {Overrides([k \in {key} |-> state]) : key \in keys, state \in {"ok", "warn", "crit"}}

UnknownValue == "Bogus"        \* a value no mapping knows

\* the keys a rule can hold for a mapping
ParamKeys(mapping) ==
    IF mapping = "job_result" THEN {"Success", "Warning", "Failed", "no_result"}
    ELSE DefaultKeys(mapping)

MappingArgs ==
    UNION {{[mapping |-> m, value |-> v, overrides |-> ov] :
               v \in DefaultKeys(m) \cup {UnknownValue},
               ov \in IF m \in OverridableMappings
                      THEN OverrideMaps(ParamKeys(m) \cup {UnknownValue})
                      ELSE {NoOverrides}} : m \in Mappings}

GenericRows == [name : Items]
TaskRows ==
    [name : Items, endTime : 0..MaxTime, creationTime : 0..1,
     state : {"Stopped", "Working"}, result : {"Success", "Failed"}]
JobRows ==
    [name : {"a"},
     status : {"Running", "Disabled", "Stopped", UnknownValue},
     lastResult : {"Success", "Warning", "Failed", "None"},
     lastRunAgeSeconds : {Absent, 3600, 3601},
     sessionProgress : {[kind |-> "absent", processedSize |-> 0],
                        [kind |-> "null", processedSize |-> 0],
                        [kind |-> "dict", processedSize |-> 0],
                        [kind |-> "dict", processedSize |-> Null],
                        [kind |-> "dict", processedSize |-> 1]}]
JobParams ==
    [result_states : {NoOverrides, Overrides(EmptyMap), Overrides([k \in {"Failed"} |-> "warn"]),
                      Overrides([k \in {"Failed"} |-> "unknown"])},
     status_states : {NoOverrides, Overrides([k \in {"Disabled"} |-> "ok"]),
                      Overrides([k \in {"Disabled"} |-> "critical"])},
     ignore_disabled : BOOLEAN,
     max_job_age : {Absent, 1}]
RepoRows ==
    [name : {"a"}, capacityGB : {0, 100, 1000}, freeGB : {0, 100, 200, 1100},
     usedSpaceGB : {0, 5}, isOnline : BOOLEAN, isOutOfDate : BOOLEAN]
RepoParams ==
    [usage_levels : {NoLevels, Fixed(80, 90), Bare(80, 90)},
     free_space_levels : {NoLevels, Fixed(150, 50)}]
\* ages in seconds around one and two hours; thresholds in hours, 0 for unset
BackupAgeArgs ==
    [function : BackupAgeFunctions, backupAgeSeconds : {1, 2, 3599, 3600, 7200},
     backup_age_warn : 0..MaxLevel, backup_age_crit : 0..MaxLevel]
NoParams == << >>

SectionsOf(rows, n) == {NoSection} \cup {SectionOf(s) : s \in SeqsUpTo(rows, n)}

\* the arguments of a check function: of those that evaluate no field of the
\* model, of the repositories, tasks and jobs checks
GenericCheckArgs ==
    {[plugin |-> p, item |-> i, params |-> NoParams, section |-> s] :
        p \in CheckPlugins \ {"jobs", "tasks", "repositories"}, i \in Items,
        s \in SectionsOf(GenericRows, MaxRows)}
RepoCheckArgs ==
    {[plugin |-> "repositories", item |-> i, params |-> p, section |-> s] :
        i \in Items, p \in RepoParams, s \in SectionsOf(RepoRows, 1)}
TaskCheckArgs ==
    {[plugin |-> "tasks", item |-> "a", params |-> NoParams, section |-> s] :
        s \in SectionsOf(TaskRows, MaxRows)}
JobCheckArgs ==
    {[plugin |-> "jobs", item |-> i, params |-> p, section |-> s] :
        i \in Items, p \in JobParams, s \in SectionsOf(JobRows, 1)}

Elems ==
    {[kind |-> "object", name |-> n] : n \in Items \cup {""}}
        \cup {[kind |-> "scalar", name |-> ""]}
Docs ==
    {[shape |-> "list", elems |-> s] : s \in SeqsUpTo(Elems, MaxRows)}
        \cup {[shape |-> "object", elems |-> s] :
                 s \in SeqsUpTo({[kind |-> "scalar", name |-> ""]}, 1)}
        \cup {[shape |-> sh, elems |-> << >>] : sh \in {"scalar", "null"}}
Tables ==
    {[kind |-> k, doc |-> [shape |-> "null", elems |-> << >>]] :
        k \in TableKinds \ {"json"}}
        \cup {[kind |-> "json", doc |-> d] : d \in Docs}
ParseArgs == {[plugin |-> p, table |-> t] : p \in CheckPlugins, t \in Tables}

RuleArgs ==
    [rule : UpperRules \cup LowerRules, value : (0 - 1)..(MaxLevel + 1),
     warn : 0..MaxLevel, crit : 0..MaxLevel]

MaxDays == 4       \* days of a duration: 0..MaxDays

\* hours, minutes and seconds of the durations tried
ClockParts == [h : {0, 2, 23}, m : {0, 3, 59}, s : {0, 4, 59}]

\* A duration as the API writes it: "HH:MM:SS", or "D.HH:MM:SS" from one day on
TimeSpanText(d, c) ==
    (IF d > 0 THEN Decimal(d) \o <<".">> ELSE << >>)
        \o Pad02(c.h) \o <<":">> \o Pad02(c.m) \o <<":">> \o Pad02(c.s)

\* strings that are no duration: empty, two parts, four parts, a fraction of
\* a second, a letter, an empty part, two dots in the first part
NoDurations ==
    {<< >>, <<"0", "3", ":", "2", "6">>, <<"1", ":", "0", "0", ":", "0", "3", ":", "2", "6">>,
     <<"0", "0", ":", "0", "3", ":", "2", "6", ".", "5">>, <<"x", ":", "0", "3", ":", "2", "6">>,
     <<":", "0", "3", ":", "2", "6">>, <<"1", ".", "0", ".", "2", ":", "0", "3", ":", "0", "4">>}

ParseDurationArgs ==
    {[days |-> d, clock |-> c, text |-> TimeSpanText(d, c)] : d \in 0..MaxDays, c \in ClockParts}
        \cup {[days |-> Absent, clock |-> [h |-> 0, m |-> 0, s |-> 0], text |-> t] :
                 t \in NoDurations}

FormatDurationArgs ==
    {[seconds |-> d * 86400 + c.h * 3600 + c.m * 60 + c.s] : d \in 0..MaxDays, c \in ClockParts}

\* rows of a list section (a row may have no name), of a tasks section
NamedRows == [name : Items \cup {""}]
DiscoverTaskRows ==
    [name : Items \cup {""}, endTime : 0..MaxTime, creationTime : 0..1,
     state : {"Stopped"}, result : {"Success"}]

DiscoverArgs ==
    {[plugin |-> p, section |-> SectionOf(s)] :
        p \in CheckPlugins \ (DictSectionPlugins \cup {"tasks"}), s \in SeqsUpTo(NamedRows, MaxRows)}
DiscoverDictArgs ==
    {[plugin |-> p, section |-> SectionOf(s)] :
        p \in DictSectionPlugins, s \in SeqsUpTo(GenericRows, MaxRows)}
DiscoverTaskArgs ==
    {[plugin |-> "tasks", section |-> SectionOf(s)] : s \in SeqsUpTo(DiscoverTaskRows, MaxRows)}

\* backup records: sizes in GB, times in seconds
TaskDatas ==
    {[kind |-> "absent", processedSize |-> Absent, durationSeconds |-> Absent, readSize |-> Absent]}
        \cup [kind : {"dict"}, processedSize : {Absent, 0, 5}, durationSeconds : {Absent, 60},
              readSize : {Absent, 3}]
RestorePoints ==
    {[kind |-> "absent", originalSize |-> Absent, backupSize |-> Absent]}
        \cup [kind : {"dict"}, originalSize : {Absent, 0, 7}, backupSize : {Absent, 2}]
BackupRecords ==
    [restorePointsCount : {0, 3}, backupAgeSeconds : {Absent, 3600},
     taskData : TaskDatas, latestRestorePoint : RestorePoints]
BackupMetricsArgs ==
    {[function |-> f, data |-> d, include_extra_metrics |-> x] :
        f \in BackupAgeFunctions, d \in BackupRecords, x \in BOOLEAN}

\* One call of a plugin function by the monitoring core
InitPlugins ==
    /\ pc = "plugin" /\ exit = None /\ results = {} /\ token = None
    /\ tokenRequests = 0 /\ authMessage = None /\ issued = {} /\ lastReq = NoRequest
    /\ warning_jobs = FALSE /\ backup_objects = 0 /\ perIdx = 0
    /\ pgpc = "idle" /\ limit = 0 /\ skip = 0 /\ all_items = << >>
    /\ call_count = 0 /\ shape = "bare" /\ T = 0 /\ pageLog = << >>
    /\ args = NoArgs /\ REDACT_ENABLED = FALSE /\ REDACT_VALUES = {}
    /\ jobs = {} /\ printed = {}
    /\ fnpc = "called" /\ out = << >>
    /\ \/ fn = "check" /\ arg \in GenericCheckArgs
       \/ fn = "check" /\ arg \in RepoCheckArgs
       \/ fn = "check" /\ arg \in TaskCheckArgs
       \/ fn = "check" /\ arg \in JobCheckArgs
       \/ fn = "parse" /\ arg \in ParseArgs
       \/ fn = "map" /\ arg \in MappingArgs
       \/ fn = "rule" /\ arg \in RuleArgs
       \/ fn = "backup_age" /\ arg \in BackupAgeArgs
       \/ fn = "backup_metrics" /\ arg \in BackupMetricsArgs
       \/ fn = "discover" /\ arg \in DiscoverArgs
       \/ fn = "discover" /\ arg \in DiscoverDictArgs
       \/ fn = "discover" /\ arg \in DiscoverTaskArgs
       \/ fn = "parse_duration" /\ arg \in ParseDurationArgs
       \/ fn = "format_duration" /\ arg \in FormatDurationArgs

NextPlugins ==
    \/ CheckEntry
    \/ CheckJobs
    \/ CheckTasks
    \/ Parse
    \/ EvalMapping
    \/ EvalRule
    \/ CheckRepositories
    \/ BackupAge
    \/ CheckBackup
    \/ Discovery
    \/ CheckDiscovered
    \/ FormatDuration
    \/ ParseDuration

SpecPlugins == InitPlugins /\ [][NextPlugins]_vars

\* ------------------------------------------------------------------------
\* main(): what it prints of the sensitive values
\* ------------------------------------------------------------------------
\* The steps of main that register or print a sensitive value, in the order
\* main takes them; a run that ends early (exit 1, or an exception of
\* api_get) takes a prefix of them.  A line is kept with the values that can
\* be read in it and the values registered when it was printed.
HostValue == Value("host", 11)
PasswordValue == Value("password", 8)
NameLengths == {2, 8}          \* a name redact() skips, and one it replaces

\* redact(text): every registered value of more than two characters is
\* replaced; what is left readable of the values the text holds
Redact(holds, enabled, values) ==
    IF ~enabled THEN holds
    ELSE {v \in holds : ~(v \in values /\ v.len > 2)}

Line(line, shows, registered) == [line |-> line, shows |-> shows, registered |-> registered]

\* REDACT_VALUES.append(value) "if REDACT_ENABLED and value not in REDACT_VALUES"
Register(value, enabled, values) == IF enabled THEN values \cup {value} ELSE values

\* lines 739-759: the redact list is set up and the header is printed
RedactSetup ==
    /\ pc = "redact:setup"
    /\ REDACT_ENABLED' = args.redact
    /\ REDACT_VALUES' = IF args.redact THEN {HostValue, args.user, PasswordValue} ELSE {}
    /\ printed' = printed \cup
           {Line(758, Redact({HostValue}, REDACT_ENABLED', REDACT_VALUES'), REDACT_VALUES'),
            Line(759, Redact({args.user}, REDACT_ENABLED', REDACT_VALUES'), REDACT_VALUES')}
    /\ pc' = "redact:serverInfo"
    /\ UNCHANGED <<args, jobs>>
    /\ UNCHANGED <<mainVars, lastReq, pgVars, plugVars>>

\* test_api_endpoint(..., show_data=True) prints the answer through redact()
\* (line 570) before main registers the name the answer holds and prints it
ShownThenRegistered(value, line) ==
    {Line(570, Redact({value}, REDACT_ENABLED, REDACT_VALUES), REDACT_VALUES),
     Line(line, Redact({value}, REDACT_ENABLED, Register(value, REDACT_ENABLED, REDACT_VALUES)),
          Register(value, REDACT_ENABLED, REDACT_VALUES))}

\* lines 808-826: server information
ServerInfo ==
    /\ pc = "redact:serverInfo"
    /\ \E answered \in BOOLEAN, len \in NameLengths :
         IF answered
         THEN /\ REDACT_VALUES' = Register(Value("server_name", len), REDACT_ENABLED, REDACT_VALUES)
              /\ printed' = printed \cup ShownThenRegistered(Value("server_name", len), 821)
         ELSE UNCHANGED <<REDACT_VALUES, printed>>
    /\ pc' = "redact:license"
    /\ UNCHANGED <<args, REDACT_ENABLED, jobs>>
    /\ UNCHANGED <<mainVars, lastReq, pgVars, plugVars>>

\* lines 833-850: license information
LicenseInfo ==
    /\ pc = "redact:license"
    /\ \E answered \in BOOLEAN, len \in NameLengths :
         IF answered
         THEN /\ REDACT_VALUES' = Register(Value("licensed_to", len), REDACT_ENABLED, REDACT_VALUES)
              /\ printed' = printed \cup ShownThenRegistered(Value("licensed_to", len), 847)
         ELSE UNCHANGED <<REDACT_VALUES, printed>>
    /\ pc' = "redact:jobs"
    /\ UNCHANGED <<args, REDACT_ENABLED, jobs>>
    /\ UNCHANGED <<mainVars, lastReq, pgVars, plugVars>>

\* lines 904-921: the names of the jobs are registered, then printed redacted
JobsSummary ==
    /\ pc = "redact:jobs"
    /\ \E names \in SUBSET {Value("job_name", len) : len \in NameLengths}, warnings \in BOOLEAN :
         /\ (names = {} => ~warnings)
         /\ jobs' = names
         /\ warning_jobs' = warnings
         /\ REDACT_VALUES' = IF REDACT_ENABLED THEN REDACT_VALUES \cup names ELSE REDACT_VALUES
         /\ printed' = printed \cup
                {Line(919, Redact({v}, REDACT_ENABLED, REDACT_VALUES'), REDACT_VALUES') : v \in names}
    /\ pc' = "redact:repositories"
    /\ UNCHANGED <<args, REDACT_ENABLED>>
    /\ UNCHANGED <<exit, results, token, tokenRequests, authMessage, issued, backup_objects, perIdx>>
    /\ UNCHANGED <<lastReq, pgVars, plugVars>>

\* lines 924-942: the same for the repositories
RepositoriesSummary ==
    /\ pc = "redact:repositories"
    /\ \E names \in SUBSET {Value("repo_name", 8)} :
         /\ REDACT_VALUES' = IF REDACT_ENABLED THEN REDACT_VALUES \cup names ELSE REDACT_VALUES
         /\ printed' = printed \cup
                {Line(940, Redact({v}, REDACT_ENABLED, REDACT_VALUES'), REDACT_VALUES') : v \in names}
    /\ pc' = "redact:warnings"
    /\ UNCHANGED <<args, REDACT_ENABLED, jobs>>
    /\ UNCHANGED <<mainVars, lastReq, pgVars, plugVars>>

\* lines 978-996: every job whose lastResult is Warning or Failed is printed
\* by warn(f'{job_name}: {result}'), which does not pass through redact()
WarningJobs ==
    /\ pc = "redact:warnings"
    /\ printed' = IF warning_jobs
                  THEN printed \cup {Line(992, {v}, REDACT_VALUES) : v \in jobs}
                  ELSE printed
    /\ pc' = "redact:done"
    /\ UNCHANGED <<args, REDACT_ENABLED, REDACT_VALUES, jobs>>
    /\ UNCHANGED <<mainVars, lastReq, pgVars, plugVars>>

\* A run of main() started with or without --redact
InitRedact ==
    /\ pc = "redact:setup" /\ exit = None /\ results = {} /\ token = None
    /\ tokenRequests = 0 /\ authMessage = None /\ issued = {} /\ lastReq = NoRequest
    /\ warning_jobs = FALSE /\ backup_objects = 0 /\ perIdx = 0
    /\ pgpc = "idle" /\ limit = 0 /\ skip = 0 /\ all_items = << >>
    /\ call_count = 0 /\ shape = "bare" /\ T = 0 /\ pageLog = << >>
    /\ fn = None /\ arg = << >> /\ fnpc = "idle" /\ out = << >>
    /\ args \in [redact : BOOLEAN, user : {Value("user", len) : len \in NameLengths}]
    /\ REDACT_ENABLED = FALSE /\ REDACT_VALUES = {} /\ jobs = {} /\ printed = {}

NextRedact ==
    \/ RedactSetup
    \/ ServerInfo
    \/ LicenseInfo
    \/ JobsSummary
    \/ RepositoriesSummary
    \/ WarningJobs

SpecRedact == InitRedact /\ [][NextRedact]_vars

\* ------------------------------------------------------------------------
\* Properties of api_get_paginated (checked under SpecPaginated)
\* ------------------------------------------------------------------------
\* Every page request so far was answered 200 with the page skip and limit ask for
Honoured ==
    \A k \in 1..Len(pageLog) :
        /\ pageLog[k].outcome = "ok"
        /\ pageLog[k].n = HonouredSize(pageLog[k].skip, limit, T)

\* The records of the first k pages of the log, in the order of the requests
RECURSIVE ConcatPages(_, _)
ConcatPages(log, k) ==
    IF k = 0 THEN << >>
    ELSE ConcatPages(log, k - 1) \o PageItems(log[k].skip, log[k].n)

Returned == pc = "standalone" /\ pgpc = "returned"

\* C1 as stated: on a bare-array endpoint of T records that honours skip and
\* limit, the call issues exactly ceil(T/P) requests and returns T records.
C1_CeilRequests ==
    (Returned /\ shape = "bare" /\ Honoured)
        => (Len(pageLog) = Ceil(T, limit) /\ Len(all_items) = T)

\* C1 amended: on a bare-array endpoint of T records that honours skip and
\* limit, the call issues exactly floor(T/P) + 1 requests (one more than
\* ceil(T/P) when P divides T: the empty page that ends the loop) and
\* returns the T records.
C1_FloorPlusOneRequests ==
    (Returned /\ shape = "bare" /\ Honoured)
        => /\ Len(pageLog) = (T \div limit) + 1
           /\ call_count = Len(pageLog)
           /\ all_items = PageItems(0, T)

C1_Witness ==
    /\ Returned /\ shape = "bare" /\ Honoured
    /\ T = 4 /\ limit = 2 /\ Len(pageLog) = 3 /\ Len(all_items) = 4

\* C2: when the k-th page request is answered with a non-200 status, that
\* request is the last of the call, the call returns (it does not raise) and
\* the result is the records of pages 1..k-1 in order.
C2_FailedPageEndsFetch ==
    \A k \in 1..Len(pageLog) :
        pageLog[k].outcome = "http_error"
            => /\ k = Len(pageLog)
               /\ pgpc = "returned"
               /\ all_items = ConcatPages(pageLog, k - 1)

C2_Witness ==
    /\ Returned
    /\ Len(pageLog) = 3
    /\ pageLog[3].outcome = "http_error"
    /\ all_items = ConcatPages(pageLog, 2)
    /\ Len(all_items) = 2 * limit

\* C3: on an enveloped endpoint that reports pagination.total, the loop is
\* over as soon as the number of records fetched so far is >= total: while
\* it goes on after a page, fewer than total records have been fetched.
C3_StopsAtCumulativeTotal ==
    (shape = "env_total" /\ pgpc = "loop" /\ Len(pageLog) > 0) => Len(all_items) < T

\* C4: a page request that times out ends the fetch like a failed page: the
\* call returns the records of the earlier pages and does not raise.
C4_TimeoutReturnsPartial ==
    \A k \in 1..Len(pageLog) :
        pageLog[k].outcome = "timeout"
            => /\ pgpc = "returned"
               /\ all_items = ConcatPages(pageLog, k - 1)

\* C6: an enveloped response without pagination.total falls back to the
\* short-page rule: after a page of exactly limit items the loop goes on.
C6_NoTotalShortPageFallback ==
    (/\ shape = "env_nototal"
     /\ Len(pageLog) > 0
     /\ pageLog[Len(pageLog)].outcome = "ok"
     /\ pageLog[Len(pageLog)].n = limit)
        => pgpc = "loop"

\* ------------------------------------------------------------------------
\* Properties of a diagnostic run (checked under Spec)
\* ------------------------------------------------------------------------
\* The stages of main whose request does not depend on what the server holds
UnconditionalStages ==
    {EndpointStages[i] : i \in 1..Len(EndpointStages)}
        \cup {SummaryStages[i] : i \in 1..Len(SummaryStages)}
        \cup {"page:backupObjects"}

\* C5: an error while collecting one resource never prevents the collection
\* of the later ones: an authenticated run ends only after the request of
\* every stage was issued.
C5_ErrorsIsolatedPerResource ==
    (pc \in {"done", "crashed"} /\ token # None) => UnconditionalStages \subseteq issued

\* C7: at most one token request is issued and it precedes every resource
\* request; when it fails the run issues no resource request, does not
\* repeat it, and main returns 1.
C7_AuthFailureFatal ==
    /\ tokenRequests <= 1
    /\ (issued # {} => (tokenRequests = 1 /\ token # None))
    /\ ((tokenRequests = 1 /\ token = None)
            => (pc = "done" /\ exit = "1" /\ issued = {}))

C7_Witness ==
    /\ tokenRequests = 1 /\ token = None
    /\ <<"Auth", "FAIL">> \in results
    /\ pc = "done" /\ exit = "1"

\* C8: after a failed DNS resolution or TCP connect test the run is over
\* with exit status 1, with no TLS test, no token request and no API request.
C8_NetworkFailureFatal ==
    <<"Network", "FAIL">> \in results
        => /\ pc = "done" /\ exit = "1"
           /\ \A r \in results : r[1] = "Network"
           /\ tokenRequests = 0
           /\ issued = {}
           /\ lastReq = NoRequest

C8_Witness ==
    /\ <<"Network", "FAIL">> \in results
    /\ <<"Network", "PASS">> \in results
    /\ pc = "done" /\ exit = "1"

\* C9: a failed TLS handshake test is recorded as FAIL and the run goes on:
\* the token request is issued next, and the run ends with status 1 only if
\* no token was obtained.
C9_TlsFailureNotFatal ==
    <<"SSL/TLS", "FAIL">> \in results
        => /\ (pc = "auth" \/ tokenRequests = 1)
           /\ (exit = "1" => token = None)
           /\ ((pc = "done" /\ token # None) => exit = "0")

C9_Witness ==
    /\ <<"SSL/TLS", "FAIL">> \in results
    /\ tokenRequests = 1
    /\ pc = "done" /\ exit = "0"

\* C10: every HTTP request the run issues carries x-api-version = API_VERSION.
C10_ApiVersionOnEveryRequest ==
    lastReq # NoRequest => lastReq.version = API_VERSION

C10_Witness ==
    /\ lastReq.by = "api_get"
    /\ lastReq.method = "GET"
    /\ pc = "perobject" /\ perIdx > 0
    /\ {"test:serverInfo", "get:jobs/states", "page:backupObjects"} \subseteq issued

\* C11: within one call the k-th request asks for offset (k-1) * limit, and
\* the list the call holds (and returns) is the concatenation of the pages
\* received so far, in the order they were requested.
C11_OffsetsAndOrder ==
    pc = "standalone" =>
        /\ \A k \in 1..Len(pageLog) : pageLog[k].skip = (k - 1) * limit
        /\ all_items = ConcatPages(pageLog, Len(pageLog))

C11_Witness ==
    /\ Returned
    /\ shape = "env_total"
    /\ Len(pageLog) = 3
    /\ pageLog[3].n > 0
    /\ Len(all_items) >= 3

\* ------------------------------------------------------------------------
\* Properties of the check plugins (checked under SpecPlugins)
\* ------------------------------------------------------------------------
ItemInSection == \E k \in 1..Len(arg.section.rows) : arg.section.rows[k].name = arg.item

\* C12: a check function called with an absent or empty section, or for an
\* item the section does not hold, returns after yielding exactly one result,
\* of state UNKNOWN with a non-empty summary; it does not raise.
C12_NoDataYieldsOneUnknown ==
    (/\ fn = "check" /\ fnpc # "called"
     /\ \/ NotSection(arg.section)
        \/ arg.plugin \in LookupPlugins /\ ~ItemInSection)
        => /\ fnpc = "returned"
           /\ Len(out) = 1
           /\ out[1].kind = "Result" /\ out[1].state = "UNKNOWN" /\ out[1].name # ""

\* shapes the parse function of a plugin is not written for
UnexpectedShape(plugin, table) ==
    /\ table.kind = "json"
    /\ plugin \in DictParsePlugins \cup {"security", "backup_objects"}
    /\ \/ table.doc.shape = "object"
       \/ table.doc.shape = "list" /\ HasScalarElem(table.doc)

\* C13: a parse function handed text that is not JSON, a row with no column,
\* an object where it expects a list, or a list with elements that are not
\* objects, returns None; it does not raise.
C13_ParseReturnsNoneOnMalformed ==
    (/\ fn = "parse" /\ fnpc # "called"
     /\ \/ arg.table.kind \in {"malformed", "no_column"}
        \/ UnexpectedShape(arg.plugin, arg.table))
        => fnpc = "returned" /\ out.py = "None"

\* C14: in each of the six enum-to-state mappings a value that is neither a
\* key of the defaults nor a key of the overrides evaluates to OK.
C14_UnknownValueIsOk ==
    (/\ fn = "map" /\ fnpc = "returned"
     /\ arg.value \notin DefaultKeys(arg.mapping)
     /\ arg.value \notin DOMAIN OverridesOf(arg.overrides))
        => out = "OK"

DefaultMaps(params) ==
    /\ OverridesOf(params.result_states) = EmptyMap
    /\ OverridesOf(params.status_states) = EmptyMap

FoundRow == arg.section.rows[FindRow(arg.section.rows, arg.item)]

\* C15: for a job that is found, whose lastResult is "Failed", under the
\* default maps, the check yields one OK result and nothing else when the
\* status is "Disabled" and ignore_disabled is set, and otherwise its first
\* result (the primary one) is CRIT whatever the status is.
C15_FailedJobIsCrit ==
    (/\ fn = "check" /\ arg.plugin = "jobs" /\ fnpc = "returned"
     /\ ~NotSection(arg.section) /\ ItemInSection
     /\ FoundRow.lastResult = "Failed"
     /\ DefaultMaps(arg.params))
        => IF FoundRow.status = "Disabled" /\ arg.params.ignore_disabled
           THEN out = <<Result("OK", "Job is disabled (ignored)")>>
           ELSE out[1].kind = "Result" /\ out[1].state = "CRIT"

C15_Witness ==
    /\ fn = "check" /\ arg.plugin = "jobs" /\ fnpc = "returned"
    /\ ~NotSection(arg.section) /\ ItemInSection
    /\ FoundRow.lastResult = "Failed"
    /\ DefaultMaps(arg.params)
    /\ FoundRow.status = "Disabled" /\ arg.params.ignore_disabled
    /\ Len(out) = 1

\* the state a mapping gives a value by its built-in defaults alone
DefaultState(mapping, value) ==
    CASE mapping = "job_result"     -> STATE_MAP(DictGet(DEFAULT_RESULT_STATE_MAP, value, "ok"))
      [] mapping = "job_status"     -> STATE_MAP(DictGet(DEFAULT_STATUS_STATE_MAP, value, "ok"))
      [] mapping = "malware_status" -> STATE_MAP(DictGet(MALWARE_STATUS_DEFAULTS, value, "ok"))

\* the key of the rule that stands for a value
RuleKey(mapping, value) ==
    IF mapping = "job_result" /\ value = "None" THEN "no_result" ELSE value

\* C16: for the job-result, job-status and malware-status mappings an empty
\* override map gives what an absent one gives (the defaults), and an
\* override of one key gives that key the overriding state and every other
\* value its default; the key "no_result" stands for the job result "None".
C16_OverrideChangesItsKeyOnly ==
    (fn = "map" /\ fnpc = "returned" /\ arg.mapping \in OverridableMappings)
        => LET ov == OverridesOf(arg.overrides)
           IN  IF RuleKey(arg.mapping, arg.value) \in DOMAIN ov
               THEN out = STATE_MAP(ov[RuleKey(arg.mapping, arg.value)])
               ELSE out = DefaultState(arg.mapping, arg.value)

C16_Witness ==
    /\ fn = "map" /\ fnpc = "returned" /\ arg.mapping = "job_result"
    /\ arg.value = "None"
    /\ arg.overrides = Overrides([k \in {"no_result"} |-> "crit"])
    /\ out = "CRIT"

\* C17: an upper-bound rule with warn < crit gives CRIT at the crit bound,
\* WARN at the warn bound and OK one below the warn bound; a lower-bound rule
\* with crit < warn gives CRIT at the crit bound, WARN at the warn bound and
\* OK one above the warn bound.
C17_BoundsAreInclusive ==
    (fn = "rule" /\ fnpc = "returned")
        => /\ (arg.rule \in UpperRules /\ arg.warn < arg.crit)
                => /\ arg.value = arg.crit => out = "CRIT"
                   /\ arg.value = arg.warn => out = "WARN"
                   /\ arg.value = arg.warn - 1 => out = "OK"
           /\ (arg.rule \in LowerRules /\ arg.crit < arg.warn)
                => /\ arg.value = arg.crit => out = "CRIT"
                   /\ arg.value = arg.warn => out = "WARN"
                   /\ arg.value = arg.warn + 1 => out = "OK"

UsageMetrics ==
    {k \in 1..Len(out) : out[k].kind = "Metric" /\ out[k].name = "repository_used_percent"}

\* C18: for an online repository checked against usage levels, the value
\* handed to the usage level check is (capacityGB - freeGB) * 100 / capacityGB,
\* 0 when the capacity is not positive, whatever used space the server
\* reports; with capacity 1000, free 100 and levels (80, 90) it is 90 and the
\* usage result is CRIT.
C18_UsedFromCapacityAndFree ==
    (/\ fn = "check" /\ arg.plugin = "repositories" /\ fnpc = "returned"
     /\ ~NotSection(arg.section) /\ ItemInSection
     /\ FoundRow.isOnline /\ arg.params.usage_levels.kind # "none")
        => /\ \E k \in UsageMetrics :
                /\ out[k].value =
                       IF FoundRow.capacityGB > 0
                       THEN ((FoundRow.capacityGB - FoundRow.freeGB) * 100) \div FoundRow.capacityGB
                       ELSE 0
                /\ (FoundRow.capacityGB = 1000 /\ FoundRow.freeGB = 100)
                       => /\ out[k].value = 90
                          /\ out[k - 1] = Result("CRIT", "Used")

C18_Witness ==
    /\ fn = "check" /\ arg.plugin = "repositories" /\ fnpc = "returned"
    /\ ~NotSection(arg.section) /\ ItemInSection
    /\ FoundRow.isOnline /\ arg.params.usage_levels = Fixed(80, 90)
    /\ FoundRow.capacityGB = 1000 /\ FoundRow.freeGB = 100 /\ FoundRow.usedSpaceGB = 5
    /\ \E k \in UsageMetrics : out[k].value = 90 /\ out[k - 1].state = "CRIT"

\* C19: whichever of yield_backup_metrics, check_veeam_rest_vm_backup and
\* check_veeam_rest_backup_objects evaluates the backup age, with both
\* thresholds configured (in hours) the upper levels it hands to the level
\* check are the fixed levels (warn * 3600, crit * 3600), in seconds like
\* the age they are compared with.
C19_AgeLevelsInSeconds ==
    (/\ fn = "backup_age" /\ fnpc = "returned"
     /\ arg.backup_age_warn > 0 /\ arg.backup_age_crit > 0)
        => out.levels_upper = Fixed(arg.backup_age_warn * 3600, arg.backup_age_crit * 3600)

\* C20: in a run with --redact no printed line shows a value that was
\* registered for redaction when the line was printed.
C20_RegisteredValuesNeverPrinted ==
    REDACT_ENABLED => \A l \in printed : l.shows \cap l.registered = {}

\* ------------------------------------------------------------------------
\* Properties of the duration helpers (checked under SpecPlugins)
\* ------------------------------------------------------------------------
\* C21: parse_duration_to_seconds maps "H:M:S" to H*3600 + M*60 + S and
\* "D.H:M:S" to D*86400 + H*3600 + M*60 + S ("1.02:03:04" gives 93784);
\* format_duration_hms writes total hours without a day part (93784 gives
\* "26:03:04"); parsing what format_duration_hms wrote gives the seconds back.
C21_DurationRoundTrip ==
    /\ (fn = "parse_duration" /\ fnpc = "returned" /\ arg.days # Absent)
        => out.parsed = Seconds(arg.days * 86400 + arg.clock.h * 3600
                                + arg.clock.m * 60 + arg.clock.s)
    /\ (fn = "parse_duration" /\ fnpc = "returned"
        /\ arg.text = <<"1", ".", "0", "2", ":", "0", "3", ":", "0", "4">>)
        => out.parsed = Seconds(93784)
    /\ (fn = "format_duration" /\ fnpc \in {"formatted", "returned"} /\ arg.seconds = 93784)
        => out.text = <<"2", "6", ":", "0", "3", ":", "0", "4">>
    /\ (fn = "format_duration" /\ fnpc = "returned") => out.parsed = Seconds(arg.seconds)

\* the round trip of a duration of more than a day
C21_Witness ==
    /\ fn = "format_duration" /\ fnpc = "returned" /\ arg.seconds = 93784
    /\ out.text = <<"2", "6", ":", "0", "3", ":", "0", "4">>
    /\ out.parsed = Seconds(93784)

\* ------------------------------------------------------------------------
\* Properties of get_oauth_token (checked under Spec)
\* ------------------------------------------------------------------------
\* C22: get_oauth_token hands its caller a failure for a timed-out token
\* request that differs from the one for a non-200 answer: what main holds
\* after a timeout is not what it holds after an HTTP failure.
C22_TimeoutToldApart ==
    authMessage = "Timeout" => token # OauthToken("http_error", FALSE)

\* ------------------------------------------------------------------------
\* Properties of check_veeam_rest_jobs (checked under SpecPlugins)
\* ------------------------------------------------------------------------
\* the order OK < WARN < CRIT
StateRank(state) == CASE state = "OK" -> 0 [] state = "WARN" -> 1 [] state = "CRIT" -> 2

\* the job was found and is not skipped as a disabled job: the check has
\* yielded its primary result
PrimaryYielded ==
    /\ fn = "check" /\ arg.plugin = "jobs" /\ fnpc \in {"returned", "raised"}
    /\ ~NotSection(arg.section) /\ ItemInSection
    /\ ~(FoundRow.status = "Disabled" /\ arg.params.ignore_disabled)

TasksOfItem == {k \in 1..Len(arg.section.rows) : arg.section.rows[k].name = arg.item}

\* a task's timestamp: its endTime or, when that is missing or empty, its
\* creationTime (0 is the empty one)
TimestampOf(task) == IF task.endTime = 0 THEN task.creationTime ELSE task.endTime

\* the first row, in section order, among the tasks of the item with the
\* greatest timestamp
NewestTask ==
    CHOOSE k \in TasksOfItem :
        /\ \A j \in TasksOfItem : TimestampOf(arg.section.rows[j]) <= TimestampOf(arg.section.rows[k])
        /\ \A j \in TasksOfItem :
               TimestampOf(arg.section.rows[j]) = TimestampOf(arg.section.rows[k]) => k <= j

\* C24: check_veeam_rest_tasks evaluates, among the tasks of the section
\* whose name is the item, the one with the greatest timestamp (endTime, or
\* creationTime when endTime is missing or empty), the first in section order
\* among equal timestamps: what it yields is what that task gives.
C24_EvaluatesNewestTask ==
    (/\ fn = "check" /\ arg.plugin = "tasks" /\ fnpc = "returned"
     /\ ~NotSection(arg.section) /\ TasksOfItem # {})
        => out = <<TasksPrimary(arg.section.rows[NewestTask])>>
                    \o TasksDetails(arg.section.rows[NewestTask])

\* ------------------------------------------------------------------------
\* Properties of discovery and check together (checked under SpecPlugins)
\* ------------------------------------------------------------------------
\* C25: for every plugin and parsed section, the check of an item that the
\* plugin's discovery function yielded on that section resolves the item: it
\* does not answer UNKNOWN "... not found".
C25_DiscoveredItemIsFound ==
    (fn = "discover" /\ fnpc = "checked" /\ arg.plugin \in LookupPlugins)
        => out.out # <<Result("UNKNOWN", NotFoundText(arg.plugin))>>

\* ------------------------------------------------------------------------
\* Further properties of api_get_paginated (checked under SpecPaginated)
\* ------------------------------------------------------------------------
\* Every page request so far was answered 200 with records that start at the
\* requested offset, at most limit of them and at least one while records
\* remain: the server may put fewer items in a page than the limit asks for
AnsweredInOrder ==
    \A k \in 1..Len(pageLog) :
        /\ pageLog[k].outcome = "ok"
        /\ pageLog[k].n <= limit
        /\ pageLog[k].n >= Min(1, Max(T - pageLog[k].skip, 0))

\* C26: on an enveloped endpoint with a constant total that honours skip and
\* limit and answers every page with 200, the call returns every record of
\* the collection exactly once, in order, also when the pages hold fewer
\* items than the requested limit.
C26_EveryRecordOnce ==
    (Returned /\ shape = "env_total" /\ AnsweredInOrder) => all_items = PageItems(0, T)

\* the most requests a call issues for T records in pages of limit
RequestBound == Ceil(T, limit) + 1

\* C27: on an enveloped endpoint whose declared total T stays constant the
\* call ends, by returning or by an exception of the request, after at most
\* ceil(T/P) + 1 requests whatever number of items each page holds, and the
\* call_count it returns is the number of GET requests it issued, a final
\* request answered with a non-200 status or an empty page included.
C27_EndsWithinRequestBound ==
    /\ [](shape = "env_total" => Len(pageLog) <= RequestBound)
    /\ [](Returned => call_count = Len(pageLog))
    /\ (shape = "env_total" => <>(pgpc # "loop"))

\* a call that needs every request of the bound and ends on an empty page or
\* on a failed one
C27_Witness ==
    /\ Returned /\ shape = "env_total" /\ T = 4 /\ limit = 2
    /\ Len(pageLog) = RequestBound
    /\ call_count = RequestBound
    /\ Len(all_items) = 2

\* ------------------------------------------------------------------------
\* Properties of the backup checks (checked under SpecPlugins)
\* ------------------------------------------------------------------------
\* C28: within one invocation of a backup check each metric name is yielded
\* at most once, for every record, in particular veeam_rest_backup_size_processed
\* for a record with both taskData.progress.processedSize and
\* latestRestorePoint.originalSize.
C28_MetricNamesUnique ==
    (fn = "backup_metrics" /\ fnpc = "returned")
        => \A i, j \in 1..Len(out) : out[i].name = out[j].name => i = j

\* C29: check_veeam_rest_jobs runs to completion without raising for every
\* job record found in the section, a sessionProgress that is null and a
\* null size field inside it included.
C29_JobsCheckNeverRaises ==
    (fn = "check" /\ arg.plugin = "jobs" /\ ~NotSection(arg.section) /\ ItemInSection)
        => fnpc # "raised"

\* with a sessionProgress that is missing or holds numbers the check returns
JobsCheckReturnsOnNumbers ==
    (/\ fn = "check" /\ arg.plugin = "jobs" /\ ~NotSection(arg.section) /\ ItemInSection
     /\ FoundRow.sessionProgress.kind # "null"
     /\ FoundRow.sessionProgress.processedSize # Null)
        => fnpc # "raised"

\* ------------------------------------------------------------------------
\* The used percentage of a repository (checked under SpecPlugins)
\* ------------------------------------------------------------------------
\* the check of a repository that is found and online has yielded its
\* used-percentage metric
UsedPercentYielded ==
    /\ fn = "check" /\ arg.plugin = "repositories" /\ fnpc = "returned"
    /\ ~NotSection(arg.section) /\ ItemInSection /\ FoundRow.isOnline

\* C30: the used percentage check_veeam_rest_repositories yields lies within
\* its declared boundaries 0..100 for every repository record, whatever its
\* capacityGB and freeGB are.
C30_UsedPercentWithinBoundaries ==
    UsedPercentYielded
        => \A k \in 1..Len(out) :
               (/\ out[k].kind = "Metric"
                /\ out[k].name \in {"repository_used_percent", "veeam_rest_repository_used_percent"})
                   => (out[k].value >= 0 /\ out[k].value <= 100)

\* when the free size reported is at most the capacity, it does
UsedPercentWithinBoundariesOfFreeInCapacity ==
    (UsedPercentYielded /\ (FoundRow.capacityGB > 0 => FoundRow.freeGB <= FoundRow.capacityGB))
        => \A k \in UsageMetrics : out[k].value >= 0 /\ out[k].value <= 100

====
